---- MODULE Spec2Model ----
(***************************************************************************)
(* Fallback relay of the container system: the FastAPI service (main.py)   *)
(* with its shared RabbitMQClient, the polling FallbackWorker, and the     *)
(* dedicated SQL / NoSQL queue consumers.                                  *)
(*                                                                         *)
(* A broker message is the JSON object of its body plus the AMQP headers.  *)
(* A Python dict is a record whose missing keys hold Absent / NoCount.     *)
(* The field id is the identity of one enqueued envelope (the instant of   *)
(* its "timestamp"); it is kept by every re-publish and redelivery.        *)
(***************************************************************************)
EXTENDS Integers, Sequences, FiniteSets, TLC

\* ---------------------------------------------------------------- bounds
MaxEnv == 2
MaxAttempts == 7
MaxLogs == 3

MaxLoops == 2

\* largest retries argument of get_session_with_retry
MaxTests == 6

\* ------------------------------------------------------- program constants
WorkerMaxRetries == 5
ConsumerRetryLimit == 3

StoreProbeLimit == 30
ConnectMaxRetries == 10

\* probes of wait_for_services: range(1, 31)
BootProbeLimit == 30

\* attempts of create_tables: max_retries = 10
CreateTablesRetries == 10

\* longest sleep of get_session_with_retry, in seconds
SleepCap == 30

Absent == "absent"
NoCount == -1
NoExit == -1

UsersQueue == "users_fallback_queue"
LogsQueue == "logs_fallback_queue"
SqlConsumerQueue == "sql_fallback"
NoSqlConsumerQueue == "nosql_fallback"

FALLBACK_QUEUES == [users |-> UsersQueue, logs |-> LogsQueue]

DeadLetterOf(q) == IF q = UsersQueue THEN "users_fallback_queue_dead_letter"
                   ELSE IF q = LogsQueue THEN "logs_fallback_queue_dead_letter"
                   ELSE "other_dead_letter"

QueueNames == {UsersQueue, LogsQueue, DeadLetterOf(UsersQueue), DeadLetterOf(LogsQueue),
               SqlConsumerQueue, NoSqlConsumerQueue}

Names == {"Ana"}
Emails == {"a@x.com"}
Actions == {"login"}

Ids == 1..MaxEnv

\* ------------------------------------------------------------- dict values
EmptyDict == [name |-> Absent, email |-> Absent, action |-> Absent, details |-> Absent]

UserDict(n, e) == [name |-> n, email |-> e, action |-> Absent, details |-> Absent]

LogDict(a) == [name |-> Absent, email |-> Absent, action |-> a, details |-> "d"]

Has(d, k) == d[k] # Absent

\* message.get("retry_count", 0)
GetRetryCount(m) == IF m.retry_count = NoCount THEN 0 ELSE m.retry_count

\* message.get("data", {})
GetData(m) == m.data

\* message.get("operation_type", "unknown")
GetOperationType(m) == IF m.operation_type = Absent THEN "unknown" ELSE m.operation_type

\* properties.headers.get('retry_count', 0) when headers are present, else 0
HeaderRetryCount(m) == IF m.hdr = NoCount THEN 0 ELSE m.hdr

\* ---------------------------------------------------------------- messages
NoMsg == [id |-> 0, operation_type |-> Absent, data |-> EmptyDict, top |-> EmptyDict,
          retry_count |-> NoCount, last_retry |-> FALSE, hdr |-> NoCount]

\* the dict built by send_to_fallback_queue
Envelope(i, op, d) == [id |-> i, operation_type |-> op, data |-> d, top |-> EmptyDict,
                       retry_count |-> 0, last_retry |-> FALSE, hdr |-> NoCount]

\* an arbitrary dict posted through POST /messages/ (MessageCreate.message)
Posted(i, op, d, t, rc) == [id |-> i, operation_type |-> op, data |-> d, top |-> t,
                            retry_count |-> rc, last_retry |-> FALSE, hdr |-> NoCount]

\* bodies a client of POST /messages/ sends to a queue: for the queues the
\* worker drains, envelopes (well-formed, with a missing field, with a foreign
\* operation_type, with a retry budget already used up); for the queues of the
\* dedicated consumers, flat bodies as process_message reads them and an
\* envelope as the producer writes it
PostedBodies(q, i) ==
    IF q = UsersQueue THEN
        { Posted(i, "create_user", UserDict("Ana", "a@x.com"), EmptyDict, 0),
          Posted(i, "create_user", UserDict("Ana", Absent), EmptyDict, 0),
          Posted(i, "create_log", LogDict("login"), EmptyDict, 0) }
    ELSE IF q = LogsQueue THEN
        { Posted(i, "create_log", LogDict("login"), EmptyDict, WorkerMaxRetries),
          Posted(i, "create_log", [LogDict("login") EXCEPT !.action = Absent], EmptyDict, 0) }
    ELSE IF q = SqlConsumerQueue THEN
        { Posted(i, Absent, EmptyDict, UserDict("Ana", "a@x.com"), NoCount),
          Posted(i, Absent, EmptyDict, UserDict("Ana", "a@x.com"), ConsumerRetryLimit),
          Posted(i, Absent, EmptyDict, UserDict("Ana", Absent), NoCount),
          Posted(i, "create_user", UserDict("Ana", "a@x.com"), EmptyDict, 0) }
    ELSE
        { Posted(i, Absent, EmptyDict, LogDict("login"), NoCount),
          Posted(i, Absent, EmptyDict, LogDict("login"), ConsumerRetryLimit),
          Posted(i, Absent, EmptyDict, EmptyDict, NoCount),
          Posted(i, "create_log", LogDict("login"), EmptyDict, 0) }

\* ------------------------------------------------------------ RabbitMQClient
\* A client is [connection, channel]; connection is "none" (None), "open" or
\* "closed" (is_closed); channel is "none", "open" or "closed".
\* A fault record f says how the broker answers during one call:
\* f.connect (BlockingConnection succeeds), f.declare, f.publish, f.get in
\* {"ok", "chan", "conn"}: the call succeeds, raises a channel error or raises
\* a connection error.
NoFault == [connect |-> TRUE, declare |-> "ok", publish |-> "ok", get |-> "ok"]

\* one fault at a time: a second fault of the same call is never reached,
\* because the first one already fails the call
Faults == { NoFault,
            [NoFault EXCEPT !.connect = FALSE],
            [NoFault EXCEPT !.declare = "chan"],
            [NoFault EXCEPT !.declare = "conn"],
            [NoFault EXCEPT !.publish = "chan"],
            [NoFault EXCEPT !.publish = "conn"],
            [NoFault EXCEPT !.get = "chan"],
            [NoFault EXCEPT !.get = "conn"] }

\* the broker is gone: every call to it raises a connection error
BrokerDown == [connect |-> FALSE, declare |-> "conn", publish |-> "conn", get |-> "conn"]

\* what the service sees of the broker during one call: it answers or it is gone
UpOrDown == {NoFault, BrokerDown}

\* state of the pika objects after a call on the channel raised
AfterError(c, o) == IF o = "conn" THEN [connection |-> "closed", channel |-> "closed"]
                    ELSE [connection |-> c.connection, channel |-> "closed"]

connect(ok) == IF ok THEN [connection |-> "open", channel |-> "open"]
               ELSE [connection |-> "none", channel |-> "none"]

ensure_connection(c, f) ==
    IF c.connection = "none" \/ c.connection = "closed" THEN connect(f.connect) ELSE c

\* never raises: the error of queue_declare is printed and swallowed
declare_queue(c, f) ==
    LET c1 == ensure_connection(c, f) IN
    IF c1.channel = "none" THEN c1
    ELSE IF c1.channel = "open" /\ f.declare = "ok" THEN c1
    ELSE AfterError(c1, IF c1.channel = "open" THEN f.declare ELSE "chan")

\* result of basic_publish on the channel left by declare_queue:
\* exc is the exception raised inside the try block ("none" when it ran through)
publish_exc(c, f) ==
    IF c.channel = "none" THEN "AttributeError"
    ELSE IF c.channel = "closed" THEN "ChannelWrongStateError"
    ELSE IF f.publish # "ok" THEN "AMQPError"
    ELSE "none"

\* the exceptions the clause "except Exception" of send_message catches
CaughtBySendMessage == {"AttributeError", "ChannelWrongStateError", "AMQPError"}

\* send_message with its "return True" moved behind the try statement: a
\* failed publish is printed and True is returned all the same
send_message_true_after_except(c, f) ==
    LET c1 == ensure_connection(c, f) IN
    IF c1.channel = "none"
    THEN [ret |-> FALSE, published |-> FALSE, raised |-> FALSE, client |-> c1]
    ELSE LET c2 == declare_queue(c1, f)
             exc == publish_exc(c2, f)
         IN [ret |-> TRUE,
             published |-> exc = "none",
             raised |-> exc # "none" /\ exc \notin CaughtBySendMessage,
             client |-> IF exc = "AMQPError" THEN AfterError(c2, f.publish) ELSE c2]

\* send_message: [ret, published, raised, client]; published: basic_publish
\* ran through; raised: an exception left send_message
send_message(c, f) ==
    LET c1 == ensure_connection(c, f) IN
    IF c1.channel = "none"
    THEN [ret |-> FALSE, published |-> FALSE, raised |-> FALSE, client |-> c1]
    ELSE LET c2 == declare_queue(c1, f)
             exc == publish_exc(c2, f)
         IN [ret |-> exc = "none",
             published |-> exc = "none",
             raised |-> exc # "none" /\ exc \notin CaughtBySendMessage,
             client |-> IF exc = "AMQPError" THEN AfterError(c2, f.publish) ELSE c2]

\* receive_message on a queue whose content is the sequence s:
\* [msg, rest, client]; msg = NoMsg stands for None
receive_message(c, f, s) ==
    LET c1 == ensure_connection(c, f) IN
    IF c1.channel = "none"
    THEN [msg |-> NoMsg, rest |-> s, client |-> c1]
    ELSE LET c2 == declare_queue(c1, f) IN
         IF c2.channel # "open"
         THEN [msg |-> NoMsg, rest |-> s, client |-> c2]
         ELSE IF f.get # "ok"
         THEN [msg |-> NoMsg, rest |-> s, client |-> AfterError(c2, f.get)]
         ELSE IF s = << >>
         THEN [msg |-> NoMsg, rest |-> s, client |-> c2]
         ELSE [msg |-> Head(s), rest |-> Tail(s), client |-> c2]

\* -------------------------------------------------------------------- state
VARIABLES
    pgUp,       \* the relational store answers (engine.connect / commit work)
    mongoUp,    \* the document store answers (ping / insert_one work)
    rabbitmq,   \* the service's RabbitMQClient: [connection, channel]
    queue,      \* broker: queue name -> sequence of messages
    users,      \* rows of table users: set of [name, email], email unique
    logs,       \* collection logs: envelope id -> number of documents written
                \* from it (index 0: documents written directly by create_log)
    nextId,     \* id of the next envelope that gets enqueued
    req,        \* the create_user request in flight and its response
    logResp,    \* the response of the last create_log request
    th,         \* threads running a drain: thread -> [pc, q, msg]
    cons,       \* dedicated consumers: consumer -> the last delivery it processed:
                \* [delivery, decision, cause, retry_count, msg]; decision is
                \* the one that reached the broker, retry_count the value the
                \* consumer read, msg the message the callback was handed
    fate,       \* envelope id -> terminal decision the code took for it
    attempts,   \* envelope id -> number of failed replays so far
    sent,       \* what the last observed send_message call returned (seq flips
                \* with every such call)
    fw,         \* the FallbackWorker object and the threads around it:
                \* [running, worker_thread, loop, start, stop]
    proc,       \* the consumer processes: consumer -> its SQLConsumer /
                \* NoSQLConsumer object, its position in start_consuming and
                \* what the broker holds for its channel
    cl,         \* threads of the service inside a method of the shared
                \* RabbitMQClient: caller -> [pc, op, q, back, ret]
    sess,       \* a call of get_session_with_retry: its arguments, its loop
                \* counter, the sleeps it made and how it ended
    boot        \* wait_for_services at startup: its loop counter, the sleeps
                \* it made and how it ended

vars == <<pgUp, mongoUp, rabbitmq, queue, users, logs, nextId, req, logResp,
          th, cons, fate, attempts, sent, fw, proc, cl, sess, boot>>

Threads == {"worker", "manual"}
Consumers == {"sql", "nosql"}

QueueOf(qt) == FALLBACK_QUEUES[qt]

\* the threads that can ever run _worker_loop; worker_thread 0 stands for None
Loops == 1..MaxLoops

\* FallbackWorker.__init__, and no call of start() or stop() in progress.
\* loop[w]: "unborn", "test" (at "while self.running"), "body" or "exited";
\* start: position of a call of start(); stop: position of a call of stop(),
\* the thread it joins, and (for the record) the loop threads that were
\* running when it cleared the flag
FwInit == [running |-> FALSE, worker_thread |-> 0,
           loop |-> [w \in Loops |-> "unborn"],
           start |-> "idle",
           stop |-> [pc |-> "idle", target |-> 0, seen |-> {}]]

\* SQLConsumer.__init__ / NoSQLConsumer.__init__, before start_consuming.
\* pc: "init", "probe" (in wait_for_postgres / wait_for_mongodb), "connect"
\* (in connect_rabbitmq at startup), "subscribe" (before basic_consume),
\* "loop" (between two process_data_events), "callback" (in process_message),
\* "reconnect" / "resubscribe" (the same after a lost connection), "exited".
\* probes, attempt, sleeps count the probes of the store and the attempts and
\* sleeps of the connect_rabbitmq call under way (locals of those functions:
\* they are 0 again once the function has returned True); probed_ok: a probe
\* succeeded; attempted: a BlockingConnection was tried; connection: "none",
\* "open", "lost" (gone, not yet noticed) or "closed"; durable / prefetch /
\* consuming: what was set on the current channel; resubscribed:
\* basic_consume was called again after a reconnect; unacked: the deliveries
\* the broker holds unacknowledged for that channel; body, stage, decisions,
\* decision, cause: the delivery the callback under way was entered with,
\* how far it has got, the basic_ack / basic_nack calls it makes in order
\* and the first of them; exit: the process exit status
ProcInit == [pc |-> "init", running |-> TRUE, probes |-> 0, probed_ok |-> FALSE,
             attempt |-> 0, sleeps |-> 0, attempted |-> FALSE,
             connection |-> "none", durable |-> FALSE, prefetch |-> 0,
             consuming |-> FALSE, resubscribed |-> FALSE, unacked |-> << >>,
             body |-> NoMsg, stage |-> "none", decisions |-> << >>,
             decision |-> "none", cause |-> "none", exit |-> NoExit]

\* the threads that call the shared client: the thread that serves the
\* requests (fallback publishes, POST /messages/, the manual drain) and the
\* thread of _worker_loop
Callers == {"request", "worker"}

\* a caller outside the client. pc: "idle", "ensure" (at the test of
\* ensure_connection), "connect" (in connect, before BlockingConnection),
\* "channel" (self.connection assigned, self.connection.channel() pending),
\* "check" (at "if not self.channel"), "declare" (in declare_queue, at "if
\* self.channel"), "act" (at basic_publish / basic_get); op: "send" or
\* "receive"; back: where ensure_connection returns to; ret: what the last
\* call returned ("True", "False", "message", "None")
ClIdle == [pc |-> "idle", op |-> "none", q |-> UsersQueue, back |-> "check", ret |-> "none"]

\* no call of get_session_with_retry under way. pc: "idle", "test" (at
\* test_connection of pass attempt), "returned" (a session was returned),
\* "raised"; tests: connection tests made; sleeps: the sleep_time of every
\* time.sleep so far
SessInit == [pc |-> "idle", retries |-> 0, delay |-> 0, attempt |-> 0, tests |-> 0,
             sleeps |-> << >>]

\* wait_for_services not yet called. pc: "idle", "probe" (at
\* check_database_health of pass attempt), "returned", "raised" (the
\* exception "PostgreSQL timeout"); probes: probes made; sleeps: number of
\* asyncio.sleep(10) so far. The rest of startup_event: "tables" (in the loop
\* of create_tables), "tables_raised", "queues" (at setup_fallback_queues),
\* "start" (at fallback_worker.start()), "started" and "failed" (startup_event
\* has returned, with or without an exception swallowed; requests are served)
BootInit == [pc |-> "idle", attempt |-> 0, probes |-> 0, sleeps |-> 0,
             postgres_ready |-> FALSE, tables_created |-> FALSE]

Init ==
    /\ pgUp = TRUE
    /\ mongoUp = TRUE
    /\ rabbitmq = [connection |-> "none", channel |-> "none"]
    /\ queue = [q \in QueueNames |-> << >>]
    /\ users = {}
    /\ logs = [i \in 0..MaxEnv |-> 0]
    /\ nextId = 1
    /\ req = [pc |-> "idle", name |-> Absent, email |-> Absent, reachable |-> FALSE,
              status |-> 0, fallback_used |-> FALSE]
    /\ logResp = [status |-> 0, fallback_used |-> FALSE, reachable |-> FALSE]
    /\ th = [t \in Threads |-> [pc |-> "idle", q |-> "users", msg |-> NoMsg]]
    /\ cons = [c \in Consumers |-> [delivery |-> 0, decision |-> "none", cause |-> "none",
                                     retry_count |-> 0, msg |-> NoMsg]]
    /\ fate = [i \in Ids |-> "none"]
    /\ attempts = [i \in Ids |-> 0]
    /\ sent = [seq |-> 0, q |-> UsersQueue, id |-> 0, ret |-> FALSE,
               published |-> FALSE, raised |-> FALSE]
    /\ fw = FwInit
    /\ proc = [c \in Consumers |-> ProcInit]
    /\ cl = [t \in Callers |-> ClIdle]
    /\ sess = SessInit
    /\ boot = BootInit

\* ------------------------------------------------------------- environment
PgDown ==
    /\ pgUp
    /\ pgUp' = FALSE
    /\ req' = IF req.pc = "commit" THEN [req EXCEPT !.reachable = FALSE] ELSE req
    /\ UNCHANGED <<mongoUp, rabbitmq, queue, users, logs, nextId, logResp, th, cons,
                   fate, attempts, sent, fw, proc, cl, sess, boot>>

PgUp ==
    /\ ~pgUp
    /\ pgUp' = TRUE
    /\ UNCHANGED <<mongoUp, rabbitmq, queue, users, logs, nextId, req, logResp, th, cons,
                   fate, attempts, sent, fw, proc, cl, sess, boot>>

MongoDown ==
    /\ mongoUp
    /\ mongoUp' = FALSE
    /\ UNCHANGED <<pgUp, rabbitmq, queue, users, logs, nextId, req, logResp, th, cons,
                   fate, attempts, sent, fw, proc, cl, sess, boot>>

MongoUp ==
    /\ ~mongoUp
    /\ mongoUp' = TRUE
    /\ UNCHANGED <<pgUp, rabbitmq, queue, users, logs, nextId, req, logResp, th, cons,
                   fate, attempts, sent, fw, proc, cl, sess, boot>>

\* ------------------------------------------------- publishing to the broker
\* One call rabbitmq.send_message(q, m) under the faults f: the client and the
\* queue after it.
Publish(q, m, f) ==
    LET r == send_message(rabbitmq, f) IN
    /\ rabbitmq' = r.client
    /\ queue' = IF r.published THEN [queue EXCEPT ![q] = Append(@, m)] ELSE queue

\* send_to_fallback_queue(q, d, op): a new envelope with retry_count 0; the
\* envelope takes the next id when the broker accepted it
SendToFallbackQueue(q, d, op, f) ==
    /\ Publish(q, Envelope(nextId, op, d), f)
    /\ nextId' = IF send_message(rabbitmq, f).ret THEN nextId + 1 ELSE nextId

\* POST /messages/: any dict to any queue
PostMessage(q, f) ==
    /\ nextId <= MaxEnv
    /\ \E m \in PostedBodies(q, nextId) :
          /\ Publish(q, m, f)
          /\ nextId' = IF send_message(rabbitmq, f).ret THEN nextId + 1 ELSE nextId
    /\ UNCHANGED <<pgUp, mongoUp, users, logs, req, logResp, th, cons, fate, attempts, sent,
                   fw, proc, cl, sess, boot>>

\* a caller's call rabbitmq.send_message(q, m), with its outcome on record
SendMessageCall(q, f) ==
    /\ nextId <= MaxEnv
    /\ \E m \in PostedBodies(q, nextId) :
          LET r == send_message(rabbitmq, f) IN
          /\ Publish(q, m, f)
          /\ nextId' = IF r.ret THEN nextId + 1 ELSE nextId
          /\ sent' = [seq |-> 1 - sent.seq, q |-> q, id |-> m.id, ret |-> r.ret,
                      published |-> r.published, raised |-> r.raised]
    /\ UNCHANGED <<pgUp, mongoUp, users, logs, req, logResp, th, cons, fate, attempts,
                   fw, proc, cl, sess, boot>>

\* a caller's call rabbitmq.receive_message(q)
ReceiveMessageCall(q, f) ==
    /\ LET r == receive_message(rabbitmq, f, queue[q]) IN
          /\ rabbitmq' = r.client
          /\ queue' = [queue EXCEPT ![q] = r.rest]
    /\ UNCHANGED <<pgUp, mongoUp, users, logs, nextId, req, logResp, th, cons, fate,
                   attempts, sent, fw, proc, cl, sess, boot>>

\* setup_fallback_queues: rabbitmq.declare_queue(q)
DeclareQueueCall(f) ==
    /\ rabbitmq' = declare_queue(rabbitmq, f)
    /\ UNCHANGED <<pgUp, mongoUp, queue, users, logs, nextId, req, logResp, th, cons,
                   fate, attempts, sent, fw, proc, cl, sess, boot>>

\* ----------------------------------------- RabbitMQClient, statement by statement
\* The methods of the shared client as the threads of the service run them:
\* one step per statement that reads or writes self.connection /
\* self.channel or talks to the broker. No statement takes a lock.
ClFrame == <<pgUp, mongoUp, users, logs, req, logResp, th, cons, fate, attempts, sent,
             fw, proc, sess, boot>>

\* the callers other than t that are inside send_message
SendingBeside(t) == {u \in Callers \ {t} : cl[u].pc # "idle" /\ cl[u].op = "send"}

\* rabbitmq.send_message(q, ...) / rabbitmq.receive_message(q) that waits
\* until no other thread is inside the client
ClientCall_locked(t, op, q) ==
    /\ cl[t].pc = "idle"
    /\ \A u \in Callers \ {t} : cl[u].pc = "idle"
    /\ op = "send" => nextId + Cardinality(SendingBeside(t)) <= MaxEnv
    /\ cl' = [cl EXCEPT ![t] = [pc |-> "ensure", op |-> op, q |-> q, back |-> "check",
                                ret |-> "none"]]
    /\ UNCHANGED <<rabbitmq, queue, nextId>>
    /\ UNCHANGED ClFrame

\* thread t calls rabbitmq.send_message(q, ...) or rabbitmq.receive_message(q):
\* the call is entered whatever the other threads are doing
ClientCall(t, op, q) ==
    /\ cl[t].pc = "idle"
    /\ op = "send" => nextId + Cardinality(SendingBeside(t)) <= MaxEnv
    /\ cl' = [cl EXCEPT ![t] = [pc |-> "ensure", op |-> op, q |-> q, back |-> "check",
                                ret |-> "none"]]
    /\ UNCHANGED <<rabbitmq, queue, nextId>>
    /\ UNCHANGED ClFrame

\* ensure_connection: "if not self.connection or self.connection.is_closed"
ClientEnsure(t) ==
    /\ cl[t].pc = "ensure"
    /\ cl' = [cl EXCEPT ![t].pc = IF rabbitmq.connection \in {"none", "closed"}
                                   THEN "connect" ELSE cl[t].back]
    /\ UNCHANGED <<rabbitmq, queue, nextId>>
    /\ UNCHANGED ClFrame

\* connect: self.connection = pika.BlockingConnection(params); when that
\* raises, the except branch sets connection and channel to None
ClientConnect(t, ok) ==
    /\ cl[t].pc = "connect"
    /\ IF ok
       THEN /\ rabbitmq' = [rabbitmq EXCEPT !.connection = "open"]
            /\ cl' = [cl EXCEPT ![t].pc = "channel"]
       ELSE /\ rabbitmq' = connect(FALSE)
            /\ cl' = [cl EXCEPT ![t].pc = cl[t].back]
    /\ UNCHANGED <<queue, nextId>>
    /\ UNCHANGED ClFrame

\* connect: self.channel = self.connection.channel()
ClientChannel(t, ok) ==
    /\ cl[t].pc = "channel"
    /\ rabbitmq' = IF ok THEN [rabbitmq EXCEPT !.channel = "open"] ELSE connect(FALSE)
    /\ cl' = [cl EXCEPT ![t].pc = cl[t].back]
    /\ UNCHANGED <<queue, nextId>>
    /\ UNCHANGED ClFrame

\* send_message / receive_message: "if not self.channel: return False / None",
\* else declare_queue is called, which begins with ensure_connection
ClientCheck(t) ==
    /\ cl[t].pc = "check"
    /\ cl' = [cl EXCEPT ![t] =
                 IF rabbitmq.channel = "none"
                 THEN [@ EXCEPT !.pc = "idle",
                                !.ret = IF cl[t].op = "send" THEN "False" ELSE "None"]
                 ELSE [@ EXCEPT !.pc = "ensure", !.back = "declare"]]
    /\ UNCHANGED <<rabbitmq, queue, nextId>>
    /\ UNCHANGED ClFrame

\* declare_queue: "if self.channel: self.channel.queue_declare(...)"; what it
\* raises is printed and swallowed
ClientDeclare(t, o) ==
    /\ cl[t].pc = "declare"
    /\ rabbitmq' = IF rabbitmq.channel = "none" THEN rabbitmq
                   ELSE IF rabbitmq.channel = "open" /\ o = "ok" THEN rabbitmq
                   ELSE AfterError(rabbitmq, IF rabbitmq.channel = "open" THEN o ELSE "chan")
    /\ cl' = [cl EXCEPT ![t].pc = "act"]
    /\ UNCHANGED <<queue, nextId>>
    /\ UNCHANGED ClFrame

\* self.channel.basic_publish(...) / self.channel.basic_get(...) and the
\* return: on None (AttributeError), on a closed channel and on an error of
\* the broker the except branch returns False / None
ClientAct(t, o) ==
    /\ cl[t].pc = "act"
    /\ LET q == cl[t].q
           done == rabbitmq.channel = "open" /\ o = "ok"
       IN /\ rabbitmq' = IF rabbitmq.channel = "open" /\ o # "ok"
                         THEN AfterError(rabbitmq, o) ELSE rabbitmq
          /\ IF cl[t].op = "send"
             THEN /\ queue' = IF done
                              THEN [queue EXCEPT ![q] = Append(@, Envelope(nextId, "create_user",
                                                                           UserDict("Ana", "a@x.com")))]
                              ELSE queue
                  /\ nextId' = IF done THEN nextId + 1 ELSE nextId
                  /\ cl' = [cl EXCEPT ![t].pc = "idle",
                                      ![t].ret = IF done THEN "True" ELSE "False"]
             ELSE /\ queue' = IF done /\ queue[q] # << >>
                              THEN [queue EXCEPT ![q] = Tail(@)] ELSE queue
                  /\ nextId' = nextId
                  /\ cl' = [cl EXCEPT ![t].pc = "idle",
                                      ![t].ret = IF done /\ queue[q] # << >>
                                                 THEN "message" ELSE "None"]
    /\ UNCHANGED ClFrame

\* the next statement of the call thread t is in
ClientStep(t) ==
    \/ ClientEnsure(t)
    \/ \E ok \in BOOLEAN : ClientConnect(t, ok)
    \/ \E ok \in BOOLEAN : ClientChannel(t, ok)
    \/ ClientCheck(t)
    \/ \E o \in {"ok", "chan", "conn"} : ClientDeclare(t, o)
    \/ \E o \in {"ok", "chan", "conn"} : ClientAct(t, o)

\* thread t enters the client
ClientEnter(t) == \E op \in {"send", "receive"} : ClientCall(t, op, UsersQueue)

\* ------------------------------------------------------------ request path
Row(n, e) == [name |-> n, email |-> e]

\* db.query(User).filter(User.email == e).first() is not None
Existing(e) == \E r \in users : r.email = e

\* the except-branch of create_user without the test of fallback_success: the
\* request is answered as accepted whatever send_to_fallback_queue returned
CreateUserFallback_always_accepted(n, e, reach, f) ==
    /\ SendToFallbackQueue(FALLBACK_QUEUES.users, UserDict(n, e), "create_user", f)
    /\ req' = [pc |-> "idle", name |-> n, email |-> e, reachable |-> reach,
               status |-> 200, fallback_used |-> TRUE]
    /\ UNCHANGED users

\* the except-branch of create_user: enqueue, then 200 with fallback_used or 503
CreateUserFallback(n, e, reach, f) ==
    /\ SendToFallbackQueue(FALLBACK_QUEUES.users, UserDict(n, e), "create_user", f)
    /\ req' = [pc |-> "idle", name |-> n, email |-> e, reachable |-> reach,
               status |-> IF send_message(rabbitmq, f).ret THEN 200 ELSE 503,
               fallback_used |-> send_message(rabbitmq, f).ret]
    /\ UNCHANGED users

\* create_user up to the existence check: get_session_with_retry(retries=2),
\* then the query for the email
CreateUserBegin(n, e, f) ==
    /\ req.pc = "idle"
    /\ nextId <= MaxEnv
    /\ IF ~pgUp
       THEN CreateUserFallback(n, e, FALSE, f)
       ELSE /\ req' = IF Existing(e)
                      THEN [pc |-> "idle", name |-> n, email |-> e, reachable |-> TRUE,
                            status |-> 409, fallback_used |-> FALSE]
                      ELSE [pc |-> "commit", name |-> n, email |-> e, reachable |-> TRUE,
                            status |-> 0, fallback_used |-> FALSE]
            /\ UNCHANGED <<rabbitmq, queue, nextId, users>>
    /\ UNCHANGED <<pgUp, mongoUp, logs, logResp, th, cons, fate, attempts, sent, fw, proc, cl, sess, boot>>

\* create_user from db.add / db.commit on: the commit raises when the store is
\* gone and when the unique constraint on email is violated; every exception
\* other than HTTPException takes the fallback branch
CreateUserCommit(f) ==
    /\ req.pc = "commit"
    /\ nextId <= MaxEnv
    /\ IF pgUp /\ ~Existing(req.email)
       THEN /\ users' = users \cup {Row(req.name, req.email)}
            /\ req' = [req EXCEPT !.pc = "idle", !.status = 200]
            /\ UNCHANGED <<rabbitmq, queue, nextId>>
       ELSE CreateUserFallback(req.name, req.email, req.reachable /\ pgUp, f)
    /\ UNCHANGED <<pgUp, mongoUp, logs, logResp, th, cons, fate, attempts, sent, fw, proc, cl, sess, boot>>

\* create_log: insert_one, on any exception the fallback branch
CreateLog(a, f) ==
    /\ nextId <= MaxEnv
    /\ IF mongoUp
       THEN /\ logs[0] < MaxLogs
            /\ logs' = [logs EXCEPT ![0] = @ + 1]
            /\ logResp' = [status |-> 200,
                           fallback_used |-> FALSE, reachable |-> TRUE]
            /\ UNCHANGED <<rabbitmq, queue, nextId>>
       ELSE /\ SendToFallbackQueue(FALLBACK_QUEUES.logs, LogDict(a), "create_log", f)
            /\ logResp' = [status |-> IF send_message(rabbitmq, f).ret THEN 200 ELSE 503,
                           fallback_used |-> send_message(rabbitmq, f).ret,
                           reachable |-> FALSE]
            /\ UNCHANGED logs
    /\ UNCHANGED <<pgUp, mongoUp, users, req, th, cons, fate, attempts, sent, fw, proc, cl, sess, boot>>

\* ----------------------------------------------------------- FallbackWorker
\* A drain (_process_users_queue / _process_logs_queue) runs on the worker
\* thread (from _worker_loop) or on a request thread (process_fallback_queue).
\* pc: "idle", "health" (before the probe), "receive" (top of the while loop),
\* "replay" (message pulled), "commit" (user row added, commit pending),
\* "requeue" (replay returned False).
HandledOp(qt) == IF qt = "users" THEN "create_user" ELSE "create_log"

\* where a drain goes when it returns: _worker_loop calls the log drain after
\* the user drain and sleeps after the log drain; a manual drain just returns
EndDrain(t) ==
    IF t = "worker" /\ th[t].q = "users"
    THEN [pc |-> "health", q |-> "logs", msg |-> NoMsg]
    ELSE [pc |-> "idle", q |-> th[t].q, msg |-> NoMsg]

\* one iteration of _worker_loop begins
WorkerCycle ==
    /\ th["worker"].pc = "idle"
    /\ th' = [th EXCEPT !["worker"] = [pc |-> "health", q |-> "users", msg |-> NoMsg]]
    /\ UNCHANGED <<pgUp, mongoUp, rabbitmq, queue, users, logs, nextId, req, logResp,
                   cons, fate, attempts, sent, fw, proc, cl, sess, boot>>

\* POST /fallback/process/{queue_type}
ManualDrain(qt) ==
    /\ th["manual"].pc = "idle"
    /\ th' = [th EXCEPT !["manual"] = [pc |-> "health", q |-> qt, msg |-> NoMsg]]
    /\ UNCHANGED <<pgUp, mongoUp, rabbitmq, queue, users, logs, nextId, req, logResp,
                   cons, fate, attempts, sent, fw, proc, cl, sess, boot>>

\* check_database_health() for the user queue, the ping for the log queue
Healthy(qt) == IF qt = "users" THEN pgUp ELSE mongoUp

\* the drain without its health gate: the loop is entered whatever the probe
\* of the store says
HealthCheck_no_gate(t) ==
    /\ th[t].pc = "health"
    /\ th' = [th EXCEPT ![t] = [@ EXCEPT !.pc = "receive"]]
    /\ UNCHANGED <<pgUp, mongoUp, rabbitmq, queue, users, logs, nextId, req, logResp,
                   cons, fate, attempts, sent, fw, proc, cl, sess, boot>>

HealthCheck(t) ==
    /\ th[t].pc = "health"
    /\ th' = [th EXCEPT ![t] = IF Healthy(th[t].q)
                                THEN [@ EXCEPT !.pc = "receive"]
                                ELSE EndDrain(t)]
    /\ UNCHANGED <<pgUp, mongoUp, rabbitmq, queue, users, logs, nextId, req, logResp,
                   cons, fate, attempts, sent, fw, proc, cl, sess, boot>>

\* top of the while loop: receive_message (basic_get with auto_ack), break on
\* None; a message whose operation_type is not the handled one falls through
\* the if and the loop pulls the next message
Receive(t, f) ==
    /\ th[t].pc = "receive"
    /\ LET q == QueueOf(th[t].q)
           r == receive_message(rabbitmq, f, queue[q])
       IN /\ rabbitmq' = r.client
          /\ queue' = [queue EXCEPT ![q] = r.rest]
          /\ th' = [th EXCEPT ![t] =
                      IF r.msg = NoMsg THEN EndDrain(t)
                      ELSE IF GetOperationType(r.msg) = HandledOp(th[t].q)
                      THEN [@ EXCEPT !.pc = "replay", !.msg = r.msg]
                      ELSE @]
    /\ UNCHANGED <<pgUp, mongoUp, users, logs, nextId, req, logResp, cons, fate,
                   attempts, sent, fw, proc, cl, sess, boot>>

\* the replay returned True: processed += 1, next iteration
Replayed(t) ==
    /\ th' = [th EXCEPT ![t] = [@ EXCEPT !.pc = "receive", !.msg = NoMsg]]
    /\ fate' = [fate EXCEPT ![th[t].msg.id] = "replayed"]
    /\ UNCHANGED attempts

\* the replay returned False: _requeue_with_retry comes next
ReplayFailed(t) ==
    /\ th' = [th EXCEPT ![t] = [@ EXCEPT !.pc = "requeue"]]
    /\ attempts' = [attempts EXCEPT ![th[t].msg.id] = @ + 1]
    /\ UNCHANGED fate

\* _create_user_from_queue up to the existence check
ReplayUserQuery(t) ==
    /\ th[t].pc = "replay"
    /\ th[t].q = "users"
    /\ LET data == GetData(th[t].msg) IN
       IF ~pgUp \/ ~Has(data, "email")
       THEN ReplayFailed(t)
       ELSE IF Existing(data.email)
       THEN Replayed(t)
       ELSE /\ th' = [th EXCEPT ![t] = [@ EXCEPT !.pc = "commit"]]
            /\ UNCHANGED <<fate, attempts>>
    /\ UNCHANGED <<pgUp, mongoUp, rabbitmq, queue, users, logs, nextId, req, logResp,
                   cons, sent, fw, proc, cl, sess, boot>>

\* _create_user_from_queue from User(...) / db.commit() on
ReplayUserCommit(t) ==
    /\ th[t].pc = "commit"
    /\ LET data == GetData(th[t].msg) IN
       IF Has(data, "name") /\ pgUp /\ ~Existing(data.email)
       THEN /\ users' = users \cup {Row(data.name, data.email)}
            /\ Replayed(t)
       ELSE /\ ReplayFailed(t)
            /\ UNCHANGED users
    /\ UNCHANGED <<pgUp, mongoUp, rabbitmq, queue, logs, nextId, req, logResp,
                   cons, sent, fw, proc, cl, sess, boot>>

\* _create_log_from_queue
ReplayLog(t) ==
    /\ th[t].pc = "replay"
    /\ th[t].q = "logs"
    /\ LET data == GetData(th[t].msg) IN
       IF Has(data, "action") /\ Has(data, "details") /\ mongoUp
       THEN /\ logs' = [logs EXCEPT ![th[t].msg.id] = @ + 1]
            /\ Replayed(t)
       ELSE /\ ReplayFailed(t)
            /\ UNCHANGED logs
    /\ UNCHANGED <<pgUp, mongoUp, rabbitmq, queue, users, nextId, req, logResp,
                   cons, sent, fw, proc, cl, sess, boot>>

\* the else branch of _requeue_with_retry writing the count of the try that
\* exhausted the budget into the envelope it dead-letters
DeadLetterTarget_counts_last_try(q, m) ==
    [q |-> DeadLetterOf(q), m |-> [m EXCEPT !.retry_count = GetRetryCount(m) + 1]]

\* the else branch of _requeue_with_retry: the message goes to
\* f"{queue_name}_dead_letter" as it was pulled
DeadLetterTarget(q, m) == [q |-> DeadLetterOf(q), m |-> m]

\* _requeue_with_retry writing the envelope anew around the data it could not
\* replay: operation_type is lost
RequeueTarget_rewrites_envelope(q, m) ==
    LET retry_count == GetRetryCount(m) + 1 IN
    IF retry_count <= WorkerMaxRetries
    THEN [q |-> q, m |-> [m EXCEPT !.retry_count = retry_count, !.last_retry = TRUE,
                                   !.operation_type = "unknown"]]
    ELSE [q |-> DeadLetterOf(q), m |-> m]

\* the message _requeue_with_retry publishes and the queue it publishes it to
RequeueTarget(q, m) ==
    LET retry_count == GetRetryCount(m) + 1 IN
    IF retry_count <= WorkerMaxRetries
    THEN [q |-> q, m |-> [m EXCEPT !.retry_count = retry_count, !.last_retry = TRUE]]
    ELSE DeadLetterTarget(q, m)

\* _requeue_with_retry: the result of send_message is not looked at
Requeue(t, f) ==
    /\ th[t].pc = "requeue"
    /\ LET tg == RequeueTarget(QueueOf(th[t].q), th[t].msg) IN Publish(tg.q, tg.m, f)
    /\ th' = [th EXCEPT ![t] = [@ EXCEPT !.pc = "receive", !.msg = NoMsg]]
    /\ UNCHANGED <<pgUp, mongoUp, users, logs, nextId, req, logResp, cons, fate, attempts,
                   sent, fw, proc, cl, sess, boot>>

\* ------------------------------------------- FallbackWorker.start / stop
\* start(), the test "if not self.running": a call that finds the flag set
\* returns at once
StartTest ==
    /\ fw.start = "idle"
    /\ \E w \in Loops : fw.loop[w] = "unborn"
    /\ fw' = [fw EXCEPT !.start = IF fw.running THEN "idle" ELSE "set"]
    /\ UNCHANGED <<pgUp, mongoUp, rabbitmq, queue, users, logs, nextId, req, logResp,
                   th, cons, fate, attempts, sent, proc, cl, sess, boot>>

\* start(): self.running = True
StartSet ==
    /\ fw.start = "set"
    /\ fw' = [fw EXCEPT !.running = TRUE, !.start = "spawn"]
    /\ UNCHANGED <<pgUp, mongoUp, rabbitmq, queue, users, logs, nextId, req, logResp,
                   th, cons, fate, attempts, sent, proc, cl, sess, boot>>

\* start(): self.worker_thread = threading.Thread(...); self.worker_thread.start()
StartSpawn ==
    /\ fw.start = "spawn"
    /\ LET w == CHOOSE x \in Loops : fw.loop[x] = "unborn" /\
                                      \A y \in Loops : fw.loop[y] = "unborn" => x <= y
       IN fw' = [fw EXCEPT !.worker_thread = w, !.loop[w] = "test", !.start = "idle"]
    /\ UNCHANGED <<pgUp, mongoUp, rabbitmq, queue, users, logs, nextId, req, logResp,
                   th, cons, fate, attempts, sent, proc, cl, sess, boot>>

\* stop(): self.running = False
StopClear ==
    /\ fw.stop.pc = "idle"
    /\ fw' = [fw EXCEPT !.running = FALSE, !.stop = [pc |-> "join", target |-> 0,
                                                      seen |-> {w \in Loops : fw.loop[w] \in {"test", "body"}}]]
    /\ UNCHANGED <<pgUp, mongoUp, rabbitmq, queue, users, logs, nextId, req, logResp,
                   th, cons, fate, attempts, sent, proc, cl, sess, boot>>

\* stop(): "if self.worker_thread:" and the read of the thread to join
StopJoin ==
    /\ fw.stop.pc = "join"
    /\ fw' = [fw EXCEPT !.stop = IF fw.worker_thread = 0
                                  THEN [@ EXCEPT !.pc = "returned"]
                                  ELSE [@ EXCEPT !.pc = "joining",
                                                 !.target = fw.worker_thread]]
    /\ UNCHANGED <<pgUp, mongoUp, rabbitmq, queue, users, logs, nextId, req, logResp,
                   th, cons, fate, attempts, sent, proc, cl, sess, boot>>

\* stop(): join() returns once the joined thread has ended
StopJoined ==
    /\ fw.stop.pc = "joining"
    /\ fw.loop[fw.stop.target] = "exited"
    /\ fw' = [fw EXCEPT !.stop.pc = "returned"]
    /\ UNCHANGED <<pgUp, mongoUp, rabbitmq, queue, users, logs, nextId, req, logResp,
                   th, cons, fate, attempts, sent, proc, cl, sess, boot>>

\* the caller of stop() has its answer; the next call of stop() can come
StopDone ==
    /\ fw.stop.pc = "returned"
    /\ fw' = [fw EXCEPT !.stop = [pc |-> "idle", target |-> 0, seen |-> {}]]
    /\ UNCHANGED <<pgUp, mongoUp, rabbitmq, queue, users, logs, nextId, req, logResp,
                   th, cons, fate, attempts, sent, proc, cl, sess, boot>>

\* _worker_loop: "while self.running"
WorkerLoopTest(w) ==
    /\ fw.loop[w] = "test"
    /\ fw' = [fw EXCEPT !.loop[w] = IF fw.running THEN "body" ELSE "exited"]
    /\ UNCHANGED <<pgUp, mongoUp, rabbitmq, queue, users, logs, nextId, req, logResp,
                   th, cons, fate, attempts, sent, proc, cl, sess, boot>>

\* _worker_loop, one pass of the body with nothing in the two queues: each
\* drain whose store is healthy calls receive_message once, gets None and
\* returns; then time.sleep(30)
WorkerLoopBody(w, f) ==
    /\ fw.loop[w] = "body"
    /\ queue[UsersQueue] = << >> /\ queue[LogsQueue] = << >>
    /\ LET c1 == IF pgUp THEN receive_message(rabbitmq, f, queue[UsersQueue]).client
                 ELSE rabbitmq
           c2 == IF mongoUp THEN receive_message(c1, f, queue[LogsQueue]).client ELSE c1
       IN rabbitmq' = c2
    /\ fw' = [fw EXCEPT !.loop[w] = "test"]
    /\ UNCHANGED <<pgUp, mongoUp, queue, users, logs, nextId, req, logResp,
                   th, cons, fate, attempts, sent, proc, cl, sess, boot>>

\* ------------------------------------------------------ dedicated consumers
\* What goes wrong while one delivery is processed: write (the insert / commit
\* works), rollback and close (db.rollback() / db.close() work), ack (basic_ack
\* and basic_nack reach the broker; they raise once the connection is lost).
NoCF == [write |-> TRUE, rollback |-> TRUE, close |-> TRUE, ack |-> TRUE]

ConsumerFaults == { NoCF,
                    [NoCF EXCEPT !.write = FALSE],
                    [NoCF EXCEPT !.write = FALSE, !.rollback = FALSE],
                    [NoCF EXCEPT !.close = FALSE],
                    [NoCF EXCEPT !.ack = FALSE] }

\* the faults of the store alone: the acknowledgement reaches the broker
StoreFaults == {cf \in ConsumerFaults : cf.ack}

ConsumerQueue(c) == IF c = "sql" THEN SqlConsumerQueue ELSE NoSqlConsumerQueue

\* the decision of the retry branch: retry_count < 3 requeues, else drops
RetryDecision(retry_count) ==
    IF retry_count < ConsumerRetryLimit THEN "nack_requeue" ELSE "nack_drop"

\* SQLConsumer.process_message on the delivery m: the basic_ack / basic_nack
\* calls it issues in order, the rows after it, and why it decided so.
\* data is the decoded body itself: the required keys are looked up at its top.
SQLProcess(m, cf) ==
    LET data == m.top IN
    IF ~Has(data, "name") \/ ~Has(data, "email")
    THEN [decisions |-> <<"nack_drop">>, users |-> users, cause |-> "validation"]
    ELSE IF ~pgUp
    THEN \* get_session_with_retry raises outside the inner try
         [decisions |-> <<"nack_requeue">>, users |-> users, cause |-> "session"]
    ELSE LET inner ==
               IF Existing(data.email)
               THEN [d |-> <<"ack">>, users |-> users, cause |-> "duplicate", exc |-> FALSE]
               ELSE IF cf.write
               THEN [d |-> <<"ack">>, users |-> users \cup {Row(data.name, data.email)},
                     cause |-> "written", exc |-> FALSE]
               ELSE IF ~cf.rollback
               THEN [d |-> << >>, users |-> users, cause |-> "write", exc |-> TRUE]
               ELSE [d |-> <<RetryDecision(HeaderRetryCount(m))>>, users |-> users,
                     cause |-> "write", exc |-> FALSE]
         IN \* finally db.close(); what escapes the inner block lands in the
            \* outer "except Exception", which nacks with requeue
            [decisions |-> IF inner.exc \/ ~cf.close
                           THEN Append(inner.d, "nack_requeue") ELSE inner.d,
             users |-> inner.users, cause |-> inner.cause]

\* NoSQLConsumer.process_message on the delivery m: decisions, whether a
\* document was inserted, and why
NoSQLProcess(m, cf) ==
    LET data == m.top IN
    IF ~Has(data, "action")
    THEN [decisions |-> <<"nack_drop">>, inserted |-> FALSE, cause |-> "validation"]
    ELSE IF ~mongoUp \/ ~cf.write
    THEN [decisions |-> <<RetryDecision(HeaderRetryCount(m))>>, inserted |-> FALSE,
          cause |-> IF ~mongoUp THEN "session" ELSE "write"]
    ELSE [decisions |-> <<"ack">>, inserted |-> TRUE, cause |-> "written"]

\* the decision the broker acts on: the first one that reaches it
Effective(decisions, cf) ==
    IF cf.ack /\ decisions # << >> THEN Head(decisions) ELSE "none"

\* The broker after the decision on the delivery at the head of the queue: an
\* ack or a nack without requeue removes it; a nack with requeue, or no
\* decision before the connection goes, puts it back where it was.
AfterDecision(q, d) ==
    IF d \in {"ack", "nack_drop"} THEN [queue EXCEPT ![q] = Tail(@)] ELSE queue

Decided(c, m, d, cause) ==
    /\ queue' = AfterDecision(ConsumerQueue(c), d)
    /\ cons' = [cons EXCEPT ![c] = [delivery |-> m.id, decision |-> d, cause |-> cause,
                                    retry_count |-> HeaderRetryCount(m),
                                    msg |-> m]]
    /\ fate' = IF d = "ack" THEN [fate EXCEPT ![m.id] = "replayed"]
               ELSE IF d = "nack_drop" /\ cause = "validation"
               THEN [fate EXCEPT ![m.id] = "dropped_poison"]
               ELSE IF d = "nack_drop" THEN [fate EXCEPT ![m.id] = "dropped_retries"]
               ELSE fate
    /\ attempts' = IF cause \in {"session", "write"}
                   THEN [attempts EXCEPT ![m.id] = @ + 1] ELSE attempts

\* one delivery to the SQL consumer, from the callback to the broker's reaction
ConsumeSQL(cf) ==
    /\ queue[SqlConsumerQueue] # << >>
    /\ LET m == Head(queue[SqlConsumerQueue])
           r == SQLProcess(m, cf)
       IN /\ attempts[m.id] < MaxAttempts
          /\ users' = r.users
          /\ Decided("sql", m, Effective(r.decisions, cf), r.cause)
    /\ UNCHANGED <<pgUp, mongoUp, rabbitmq, logs, nextId, req, logResp, th, sent, fw, proc, cl, sess, boot>>

\* one delivery to the NoSQL consumer
ConsumeNoSQL(cf) ==
    /\ queue[NoSqlConsumerQueue] # << >>
    /\ LET m == Head(queue[NoSqlConsumerQueue])
           r == NoSQLProcess(m, cf)
       IN /\ attempts[m.id] < MaxAttempts
          /\ logs[m.id] < MaxLogs
          /\ logs' = IF r.inserted THEN [logs EXCEPT ![m.id] = @ + 1] ELSE logs
          /\ Decided("nosql", m, Effective(r.decisions, cf), r.cause)
    /\ UNCHANGED <<pgUp, mongoUp, rabbitmq, users, nextId, req, logResp, th, sent, fw, proc, cl, sess, boot>>

\* ------------------------------------------- consumer process life cycle
\* the store a consumer replays into answers
StoreUp(c) == IF c = "sql" THEN pgUp ELSE mongoUp

\* what a step of consumer c leaves alone besides the broker and the stores
ProcFrame == <<rabbitmq, nextId, req, logResp, th, sent, fw, cl, sess, boot>>

\* the queue after the broker took back the unacknowledged deliveries of a
\* channel that went away: they return to the head of the queue
Requeued(c) == [queue EXCEPT ![ConsumerQueue(c)] = proc[c].unacked \o @]

\* "finally" of start_consuming: the connection is closed if it is not closed
Finally(connection) == IF connection \in {"open", "lost"} THEN "closed" ELSE connection

\* main() calls start_consuming()
StartConsuming(c) ==
    /\ proc[c].pc = "init"
    /\ proc' = [proc EXCEPT ![c].pc = "probe"]
    /\ UNCHANGED <<pgUp, mongoUp, queue, users, logs, cons, fate, attempts>>
    /\ UNCHANGED ProcFrame

\* wait_for_postgres / wait_for_mongodb that goes on to connect_rabbitmq also
\* after its last probe failed
ProbeStore_ignores_timeout(c) ==
    /\ proc[c].pc = "probe"
    /\ proc' = [proc EXCEPT ![c] =
                  IF StoreUp(c)
                  THEN [@ EXCEPT !.probes = 0, !.probed_ok = TRUE, !.pc = "connect"]
                  ELSE IF proc[c].probes + 1 < StoreProbeLimit
                  THEN [@ EXCEPT !.probes = @ + 1]
                  ELSE [@ EXCEPT !.probes = 0, !.pc = "connect"]]
    /\ UNCHANGED <<pgUp, mongoUp, queue, users, logs, cons, fate, attempts>>
    /\ UNCHANGED ProcFrame

\* wait_for_postgres / wait_for_mongodb, one pass of "for attempt in
\* range(1, 31)": a probe that succeeds returns True; the 30th failure ends
\* the loop, False is returned, start_consuming returns False and main exits 1
ProbeStore(c) ==
    /\ proc[c].pc = "probe"
    /\ proc' = [proc EXCEPT ![c] =
                  IF StoreUp(c)
                  THEN [@ EXCEPT !.probes = 0, !.probed_ok = TRUE, !.pc = "connect"]
                  ELSE IF proc[c].probes + 1 < StoreProbeLimit
                  THEN [@ EXCEPT !.probes = @ + 1]
                  ELSE [@ EXCEPT !.probes = @ + 1, !.pc = "exited", !.exit = 1,
                                 !.connection = Finally(@)]]
    /\ UNCHANGED <<pgUp, mongoUp, queue, users, logs, cons, fate, attempts>>
    /\ UNCHANGED ProcFrame

\* how one pass of the loop of connect_rabbitmq goes: "ok", "refused"
\* (BlockingConnection raises) or "declare" (connected, queue_declare raises)
ConnectOutcomes == {"ok", "refused", "declare"}

\* the consumer object after connect_rabbitmq returned False: at startup
\* start_consuming returns False (exit status 1); in the main loop "break",
\* then "return True" (exit status 0); on both ways through "finally"
ConnectFailed(p) ==
    [p EXCEPT !.pc = "exited",
              !.exit = IF p.pc = "connect" THEN 1 ELSE 0,
              !.connection = Finally(@),
              !.consuming = FALSE]

\* the try block of connect_rabbitmq without its basic_qos(prefetch_count=1)
ConnectedChannel_without_qos(p) ==
    [p EXCEPT !.connection = "open", !.durable = TRUE, !.prefetch = 0,
              !.consuming = FALSE, !.unacked = << >>]

\* the consumer object after the try block of connect_rabbitmq ran through:
\* a new connection and channel, queue_declare(durable=True), basic_qos(1)
ConnectedChannel(p) ==
    [p EXCEPT !.connection = "open", !.durable = TRUE, !.prefetch = 1,
              !.consuming = FALSE, !.unacked = << >>]

\* the consumer object after queue_declare raised: a new connection and
\* channel, nothing set on it
UndeclaredChannel(p) ==
    [p EXCEPT !.connection = "open", !.durable = FALSE, !.prefetch = 0,
              !.consuming = FALSE, !.unacked = << >>]

\* connect_rabbitmq that sleeps after its last failed attempt as well
ConnectAttempt_sleeps_after_last(c, o) ==
    /\ proc[c].pc \in {"connect", "reconnect"}
    /\ proc' = [proc EXCEPT ![c] =
          LET p == [proc[c] EXCEPT !.attempt = @ + 1, !.attempted = TRUE] IN
          IF o = "ok"
          THEN [ConnectedChannel(p) EXCEPT
                   !.attempt = 0, !.sleeps = 0,
                   !.pc = IF proc[c].pc = "connect" THEN "subscribe" ELSE "resubscribe"]
          ELSE LET q == IF o = "declare" THEN UndeclaredChannel(p) ELSE p
               IN IF q.attempt < ConnectMaxRetries
                  THEN [q EXCEPT !.sleeps = @ + 1]
                  ELSE ConnectFailed([q EXCEPT !.sleeps = @ + 1])]
    /\ UNCHANGED <<pgUp, mongoUp, queue, users, logs, cons, fate, attempts>>
    /\ UNCHANGED ProcFrame

\* connect_rabbitmq, one pass of "for attempt in range(1, max_retries + 1)":
\* connection, channel, queue_declare(durable), basic_qos(1), return True; on
\* an exception sleep unless it was the last attempt, then return False
ConnectAttempt(c, o) ==
    /\ proc[c].pc \in {"connect", "reconnect"}
    /\ proc' = [proc EXCEPT ![c] =
          LET p == [proc[c] EXCEPT !.attempt = @ + 1, !.attempted = TRUE] IN
          IF o = "ok"
          THEN [ConnectedChannel(p) EXCEPT
                   !.attempt = 0, !.sleeps = 0,
                   !.pc = IF proc[c].pc = "connect" THEN "subscribe" ELSE "resubscribe"]
          ELSE LET q == IF o = "declare" THEN UndeclaredChannel(p) ELSE p
               IN IF q.attempt < ConnectMaxRetries
                  THEN [q EXCEPT !.sleeps = @ + 1]
                  ELSE ConnectFailed(q)]
    /\ UNCHANGED <<pgUp, mongoUp, queue, users, logs, cons, fate, attempts>>
    /\ UNCHANGED ProcFrame

\* channel.basic_consume(queue, on_message_callback), at startup and after a
\* reconnect
Subscribe(c) ==
    /\ proc[c].pc \in {"subscribe", "resubscribe"}
    /\ proc[c].connection = "open"
    /\ proc' = [proc EXCEPT ![c].consuming = TRUE, ![c].pc = "loop",
                            ![c].resubscribed = (@ \/ proc[c].pc = "resubscribe")]
    /\ UNCHANGED <<pgUp, mongoUp, queue, users, logs, cons, fate, attempts>>
    /\ UNCHANGED ProcFrame

\* the broker pushes the head of the queue to the subscribed channel, as far
\* as the channel's prefetch count allows (0: no limit)
BrokerDeliver(c) ==
    /\ proc[c].connection = "open" /\ proc[c].consuming
    /\ queue[ConsumerQueue(c)] # << >>
    /\ proc[c].prefetch = 0 \/ Len(proc[c].unacked) < proc[c].prefetch
    /\ proc' = [proc EXCEPT ![c].unacked = Append(@, Head(queue[ConsumerQueue(c)]))]
    /\ queue' = [queue EXCEPT ![ConsumerQueue(c)] = Tail(@)]
    /\ UNCHANGED <<pgUp, mongoUp, users, logs, cons, fate, attempts>>
    /\ UNCHANGED ProcFrame

\* the connection to the broker breaks; the broker requeues what the channel
\* had not acknowledged
ConnectionLost(c) ==
    /\ proc[c].connection = "open"
    /\ proc[c].pc \in {"loop", "callback"}
    /\ proc' = [proc EXCEPT ![c].connection = "lost", ![c].consuming = FALSE,
                            ![c].unacked = << >>]
    /\ queue' = Requeued(c)
    /\ UNCHANGED <<pgUp, mongoUp, users, logs, cons, fate, attempts>>
    /\ UNCHANGED ProcFrame

\* "while self.running" and process_data_events(time_limit=1) with a delivery
\* waiting: process_message is entered
CallbackBegin(c) ==
    /\ proc[c].pc = "loop"
    /\ proc[c].running
    /\ proc[c].connection = "open"
    /\ proc[c].unacked # << >>
    /\ proc' = [proc EXCEPT ![c].pc = "callback", ![c].stage = "begun",
                            ![c].body = Head(proc[c].unacked),
                            ![c].decisions = << >>,
                            ![c].decision = "none", ![c].cause = "none"]
    /\ UNCHANGED <<pgUp, mongoUp, queue, users, logs, cons, fate, attempts>>
    /\ UNCHANGED ProcFrame

\* process_message up to its basic_ack / basic_nack: validation and the write
\* to the store
CallbackWrite(c, cf) ==
    /\ proc[c].pc = "callback"
    /\ proc[c].stage = "begun"
    /\ LET m == proc[c].body IN
       /\ attempts[m.id] < MaxAttempts
       /\ IF c = "sql"
          THEN LET r == SQLProcess(m, cf) IN
               /\ users' = r.users
               /\ logs' = logs
               /\ proc' = [proc EXCEPT ![c].stage = "decided",
                                       ![c].decisions = r.decisions,
                                       ![c].decision = Head(r.decisions),
                                       ![c].cause = r.cause]
          ELSE LET r == NoSQLProcess(m, cf) IN
               /\ logs[m.id] < MaxLogs
               /\ logs' = IF r.inserted THEN [logs EXCEPT ![m.id] = @ + 1] ELSE logs
               /\ users' = users
               /\ proc' = [proc EXCEPT ![c].stage = "decided",
                                       ![c].decisions = r.decisions,
                                       ![c].decision = Head(r.decisions),
                                       ![c].cause = r.cause]
    /\ UNCHANGED <<pgUp, mongoUp, queue, cons, fate, attempts>>
    /\ UNCHANGED ProcFrame

\* what the process sees after the broker closed the channel on a second
\* basic_ack / basic_nack for a delivery tag already settled
\* (PRECONDITION_FAILED): "idle" (process_data_events goes on returning,
\* nothing is delivered any more) or "raised" (the channel error leaves
\* process_data_events and start_consuming returns False)
ChannelClosedOutcomes == {"idle", "raised"}

\* the basic_ack / basic_nack calls of process_message reach the broker and
\* the callback returns: the first call settles the delivery, a second call
\* for the same delivery tag makes the broker close the channel
CallbackAck(c, closed) ==
    /\ proc[c].pc = "callback"
    /\ proc[c].stage = "decided"
    /\ proc[c].connection = "open"
    /\ proc[c].unacked # << >>
    /\ LET m == proc[c].body
           d == proc[c].decision
           p == [proc[c] EXCEPT !.unacked = Tail(@), !.pc = "loop", !.stage = "none",
                                !.body = NoMsg]
       IN /\ queue' = IF d = "nack_requeue"
                      THEN [queue EXCEPT ![ConsumerQueue(c)] = <<m>> \o @]
                      ELSE queue
          /\ proc' = [proc EXCEPT ![c] =
                        IF Len(proc[c].decisions) <= 1 THEN p
                        ELSE IF closed = "idle" THEN [p EXCEPT !.consuming = FALSE]
                        ELSE [p EXCEPT !.consuming = FALSE, !.pc = "exited", !.exit = 1,
                                       !.connection = Finally(@)]]
          /\ cons' = [cons EXCEPT ![c] = [delivery |-> m.id, decision |-> d,
                                          cause |-> proc[c].cause,
                                          retry_count |-> HeaderRetryCount(m),
                                          msg |-> m]]
          /\ fate' = IF d = "ack" THEN [fate EXCEPT ![m.id] = "replayed"]
                     ELSE IF d = "nack_drop" /\ proc[c].cause = "validation"
                     THEN [fate EXCEPT ![m.id] = "dropped_poison"]
                     ELSE IF d = "nack_drop" THEN [fate EXCEPT ![m.id] = "dropped_retries"]
                     ELSE fate
          /\ attempts' = IF proc[c].cause \in {"session", "write"}
                         THEN [attempts EXCEPT ![m.id] = @ + 1] ELSE attempts
    /\ UNCHANGED <<pgUp, mongoUp, users, logs>>
    /\ UNCHANGED ProcFrame

\* how a basic_ack / basic_nack on a connection that is gone ends:
\* "connection_error" (an AMQPConnectionError leaves process_data_events),
\* "other_error" (any other exception does) or "unnoticed" (the frame is
\* written to a dead socket and the callback returns)
AckFailures == {"connection_error", "other_error", "unnoticed"}

\* the basic_ack / basic_nack of process_message on a connection that is
\* gone: an AMQPConnectionError starts the reconnect, any other exception
\* ends start_consuming with False, and unnoticed the loop goes on to its
\* next process_data_events
CallbackAckFails(c, how) ==
    /\ proc[c].pc = "callback"
    /\ proc[c].stage = "decided"
    /\ proc[c].connection = "lost"
    /\ proc' = [proc EXCEPT ![c] =
                  LET p == [@ EXCEPT !.stage = "none", !.body = NoMsg] IN
                  IF how = "connection_error"
                  THEN [p EXCEPT !.pc = "reconnect", !.attempt = 0, !.sleeps = 0]
                  ELSE IF how = "other_error"
                  THEN [p EXCEPT !.pc = "exited", !.exit = 1,
                                 !.connection = Finally(@)]
                  ELSE [p EXCEPT !.pc = "loop"]]
    /\ UNCHANGED <<pgUp, mongoUp, queue, users, logs, cons, fate, attempts>>
    /\ UNCHANGED ProcFrame

\* process_data_events raises AMQPConnectionError: connect_rabbitmq is called
TickConnectionLost(c) ==
    /\ proc[c].pc = "loop"
    /\ proc[c].running
    /\ proc[c].connection = "lost"
    /\ proc' = [proc EXCEPT ![c].pc = "reconnect", ![c].attempt = 0, ![c].sleeps = 0]
    /\ UNCHANGED <<pgUp, mongoUp, queue, users, logs, cons, fate, attempts>>
    /\ UNCHANGED ProcFrame

\* SIGINT / SIGTERM: signal_handler runs on the main thread wherever that
\* is: running = False, the connection is closed, sys.exit(0)
Signal(c) ==
    /\ proc[c].pc \notin {"init", "exited"}
    /\ proc' = [proc EXCEPT ![c].running = FALSE, ![c].pc = "exited", ![c].exit = 0,
                            ![c].connection = Finally(@), ![c].consuming = FALSE,
                            ![c].unacked = << >>]
    /\ queue' = IF proc[c].connection = "open" THEN Requeued(c) ELSE queue
    /\ UNCHANGED <<pgUp, mongoUp, users, logs, cons, fate, attempts>>
    /\ UNCHANGED ProcFrame

\* the supervisor starts the exited process again: a new SQLConsumer /
\* NoSQLConsumer object, nothing of the old process is left; the broker and
\* the stores are as they were
Restart(c) ==
    /\ proc[c].pc = "exited"
    /\ proc' = [proc EXCEPT ![c] = ProcInit]
    /\ UNCHANGED <<pgUp, mongoUp, queue, users, logs, cons, fate, attempts>>
    /\ UNCHANGED ProcFrame

\* --------------------------------------------------- get_session_with_retry
SessFrame == <<mongoUp, rabbitmq, queue, users, logs, nextId, req, logResp, th, cons, fate,
               attempts, sent, fw, proc, cl, boot>>

\* the delay arguments: the call sites pass 1 and 2, the default is 2
Delays == {1, 2}

Min(a, b) == IF a <= b THEN a ELSE b

\* sleep_time without the cap: delay * (2 ** (attempt - 1))
SleepTime_uncapped(delay, attempt) == delay * (2 ^ (attempt - 1))

\* sleep_time = min(delay * (2 ** (attempt - 1)), 30)
SleepTime(delay, attempt) == Min(delay * (2 ^ (attempt - 1)), SleepCap)

\* get_session_with_retry(retries = n, delay = d) is called: the for loop
\* begins with attempt = 1
SessionCall(n, d) ==
    /\ sess.pc \in {"idle", "returned", "raised"}
    /\ sess' = [pc |-> "test", retries |-> n, delay |-> d, attempt |-> 1, tests |-> 0,
                sleeps |-> << >>]
    /\ UNCHANGED pgUp
    /\ UNCHANGED SessFrame

\* one iteration of the for loop: test_connection (SELECT 1, False on any
\* exception); on success the session is returned; on failure the call raises
\* when attempt == retries and sleeps before the next iteration otherwise
SessionTest ==
    /\ sess.pc = "test"
    /\ sess' = IF pgUp
               THEN [sess EXCEPT !.pc = "returned", !.tests = @ + 1]
               ELSE IF sess.attempt = sess.retries
               THEN [sess EXCEPT !.pc = "raised", !.tests = @ + 1]
               ELSE [sess EXCEPT !.tests = @ + 1,
                                 !.sleeps = Append(@, SleepTime(sess.delay, sess.attempt)),
                                 !.attempt = @ + 1]
    /\ UNCHANGED pgUp
    /\ UNCHANGED SessFrame

\* --------------------------------------------------------- wait_for_services
BootFrame == <<mongoUp, rabbitmq, queue, users, logs, nextId, req, logResp, th, cons, fate,
               attempts, sent, fw, proc, cl, sess>>

\* the service starts: startup_event awaits wait_for_services(), whose for
\* loop begins with attempt = 1
BootCall ==
    /\ boot.pc \in {"idle", "returned", "raised"}
    /\ boot' = [pc |-> "probe", attempt |-> 1, probes |-> 0, sleeps |-> 0,
                postgres_ready |-> FALSE, tables_created |-> FALSE]
    /\ UNCHANGED pgUp
    /\ UNCHANGED BootFrame

\* one iteration of the for loop: check_database_health() returns True or
\* False and never raises (bare except: return False), so the except branch
\* with asyncio.sleep(10) is not entered: on True the loop breaks, on False
\* the next iteration begins at once; after the 30th iteration
\* "if not postgres_ready" raises the timeout
BootProbe ==
    /\ boot.pc = "probe"
    /\ boot' = IF pgUp
               THEN [boot EXCEPT !.pc = "returned", !.probes = @ + 1,
                                 !.postgres_ready = TRUE]
               ELSE IF boot.attempt = BootProbeLimit
               THEN [boot EXCEPT !.pc = "raised", !.probes = @ + 1]
               ELSE [boot EXCEPT !.probes = @ + 1, !.attempt = @ + 1]
    /\ UNCHANGED pgUp
    /\ UNCHANGED BootFrame

\* ------------------------------------------------------------- startup_event
\* the process starts: startup_event awaits wait_for_services()
StartupCall ==
    /\ boot.pc = "idle"
    /\ BootCall

\* wait_for_services has returned: create_tables() is called, its for loop
\* begins with attempt = 1
CreateTablesCall ==
    /\ boot.pc = "returned"
    /\ boot' = [boot EXCEPT !.pc = "tables", !.attempt = 1, !.probes = 0, !.sleeps = 0]
    /\ UNCHANGED pgUp
    /\ UNCHANGED BootFrame

\* one iteration of create_tables: test_connection and create_all; a failure
\* is raised again when attempt == max_retries and slept over otherwise
CreateTablesAttempt ==
    /\ boot.pc = "tables"
    /\ boot' = IF pgUp
               THEN [boot EXCEPT !.pc = "queues", !.attempt = 0, !.tables_created = TRUE]
               ELSE IF boot.attempt = CreateTablesRetries
               THEN [boot EXCEPT !.pc = "tables_raised", !.attempt = 0]
               ELSE [boot EXCEPT !.attempt = @ + 1]
    /\ UNCHANGED pgUp
    /\ UNCHANGED BootFrame

\* the except branch of startup_event that goes on to start the worker
StartupSwallow_then_starts_worker ==
    /\ boot.pc \in {"raised", "tables_raised"}
    /\ boot' = [boot EXCEPT !.pc = "start", !.attempt = 0, !.probes = 0, !.sleeps = 0]
    /\ UNCHANGED pgUp
    /\ UNCHANGED BootFrame

\* the except branch of startup_event: the exception of wait_for_services or
\* of create_tables is logged and dropped ("pass"); setup_fallback_queues and
\* fallback_worker.start() are skipped and the application serves requests
StartupSwallow ==
    /\ boot.pc \in {"raised", "tables_raised"}
    /\ boot' = [boot EXCEPT !.pc = "failed", !.attempt = 0, !.probes = 0, !.sleeps = 0]
    /\ UNCHANGED pgUp
    /\ UNCHANGED BootFrame

\* setup_fallback_queues: declare_queue for both fallback queues; nothing is
\* raised (declare_queue swallows its errors)
SetupFallbackQueues(f) ==
    /\ boot.pc = "queues"
    /\ rabbitmq' = declare_queue(declare_queue(rabbitmq, f), f)
    /\ boot' = [boot EXCEPT !.pc = "start"]
    /\ UNCHANGED <<pgUp, mongoUp, queue, users, logs, nextId, req, logResp, th, cons, fate,
                   attempts, sent, fw, proc, cl, sess>>

\* startup_event: fallback_worker.start(), statement by statement
StartupStart ==
    /\ boot.pc = "start"
    /\ fw.worker_thread = 0
    /\ \/ StartTest
       \/ StartSet
       \/ StartSpawn

\* fallback_worker.start() has returned and startup_event with it
StartupDone ==
    /\ boot.pc = "start"
    /\ fw.start = "idle"
    /\ fw.worker_thread # 0
    /\ boot' = [boot EXCEPT !.pc = "started"]
    /\ UNCHANGED pgUp
    /\ UNCHANGED BootFrame

\* requests are served once startup_event has returned
Serving == boot.pc \in {"started", "failed"}

\* POST /users/ while the application serves
ServedCreateUser ==
    /\ Serving
    /\ \/ \E n \in Names, e \in Emails : CreateUserBegin(n, e, NoFault)
       \/ CreateUserCommit(NoFault)

\* POST /fallback/worker/start while the application serves: start(),
\* statement by statement
ServedStart ==
    /\ Serving
    /\ \/ StartTest
       \/ StartSet
       \/ StartSpawn

\* POST /fallback/process/users while the application serves
ServedManualDrain ==
    /\ Serving
    /\ \/ ManualDrain("users")
       \/ HealthCheck("manual")
       \/ Receive("manual", NoFault)
       \/ ReplayUserQuery("manual")
       \/ ReplayUserCommit("manual")
       \/ Requeue("manual", NoFault)

\* a loop thread inside the body of _worker_loop begins its pass over the
\* queues, something waiting in the users queue
LoopCycle ==
    /\ \E w \in Loops : fw.loop[w] = "body"
    /\ queue[UsersQueue] # << >>
    /\ WorkerCycle

\* a loop thread makes its pass over empty queues and sleeps
LoopIdlePass(w) ==
    /\ th["worker"].pc = "idle"
    /\ WorkerLoopBody(w, NoFault)

\* the drains of the pass a loop thread is in (nothing is enqueued in the
\* logs queue here: its drain finds it empty)
LoopDrain ==
    \/ HealthCheck("worker")
    \/ Receive("worker", NoFault)
    \/ ReplayUserQuery("worker")
    \/ ReplayUserCommit("worker")
    \/ Requeue("worker", NoFault)

\* ------------------------------------------------------------ specifications
\* Replay in the user domain: POST /messages/ to the user queue, the worker
\* thread and a manual drain side by side, the relational store going up and
\* down.
NextUsers ==
    \/ PgDown
    \/ PgUp
    \/ \E f \in UpOrDown : PostMessage(UsersQueue, f)
    \/ WorkerCycle
    \/ ManualDrain("users")
    \/ \E t \in Threads : HealthCheck(t)
    \/ \E t \in Threads, f \in UpOrDown : Receive(t, f)
    \/ \E t \in Threads : ReplayUserQuery(t)
    \/ \E t \in Threads : ReplayUserCommit(t)
    \/ \E t \in Threads, f \in UpOrDown : Requeue(t, f)

SpecUsers == Init /\ [][NextUsers]_vars

\* Requests in the user domain: create_user and its fallback, next to the
\* worker thread replaying what was enqueued, the relational store going up
\* and down.
NextCreateUser ==
    \/ PgDown
    \/ PgUp
    \/ \E n \in Names, e \in Emails, f \in UpOrDown : CreateUserBegin(n, e, f)
    \/ \E f \in UpOrDown : CreateUserCommit(f)
    \/ WorkerCycle
    \/ HealthCheck("worker")
    \/ \E f \in UpOrDown : Receive("worker", f)
    \/ ReplayUserQuery("worker")
    \/ ReplayUserCommit("worker")
    \/ \E f \in UpOrDown : Requeue("worker", f)

SpecCreateUser == Init /\ [][NextCreateUser]_vars

\* The log domain: create_log, POST /messages/ to the log queue, the worker
\* thread, the document store going up and down.
NextLogs ==
    \/ MongoDown
    \/ MongoUp
    \/ \E f \in UpOrDown : PostMessage(LogsQueue, f)
    \/ \E a \in Actions, f \in UpOrDown : CreateLog(a, f)
    \/ WorkerCycle
    \/ HealthCheck("worker")
    \/ \E f \in UpOrDown : Receive("worker", f)
    \/ ReplayLog("worker")
    \/ \E f \in UpOrDown : Requeue("worker", f)

SpecLogs == Init /\ [][NextLogs]_vars

\* The dedicated SQL consumer: POST /messages/ to its queue, the consumer, the
\* relational store going up and down.
NextSqlConsumer ==
    \/ PgDown
    \/ PgUp
    \/ \E f \in UpOrDown : PostMessage(SqlConsumerQueue, f)
    \/ \E cf \in ConsumerFaults : ConsumeSQL(cf)

SpecSqlConsumer == Init /\ [][NextSqlConsumer]_vars

\* The dedicated NoSQL consumer: POST /messages/ to its queue, the consumer,
\* the document store going up and down.
NextNoSqlConsumer ==
    \/ MongoDown
    \/ MongoUp
    \/ \E f \in UpOrDown : PostMessage(NoSqlConsumerQueue, f)
    \/ \E cf \in ConsumerFaults : ConsumeNoSQL(cf)

SpecNoSqlConsumer == Init /\ [][NextNoSqlConsumer]_vars

\* The two write endpoints on their own: create_user and create_log with both
\* stores going up and down and every fault of the broker during the enqueue.
NextRequests ==
    \/ PgDown
    \/ PgUp
    \/ MongoDown
    \/ MongoUp
    \/ \E n \in Names, e \in Emails, f \in Faults \cup {BrokerDown} : CreateUserBegin(n, e, f)
    \/ \E f \in Faults \cup {BrokerDown} : CreateUserCommit(f)
    \/ \E a \in Actions, f \in Faults \cup {BrokerDown} : CreateLog(a, f)

SpecRequests == Init /\ [][NextRequests]_vars

\* Producer and dedicated consumers side by side: the two write endpoints
\* enqueue on a store outage, clients post to the consumers' queues, and the
\* SQL and NoSQL consumers take their deliveries.
NextRelay ==
    \/ PgDown
    \/ PgUp
    \/ MongoDown
    \/ MongoUp
    \/ \E n \in Names, e \in Emails, f \in UpOrDown : CreateUserBegin(n, e, f)
    \/ \E f \in UpOrDown : CreateUserCommit(f)
    \/ \E a \in Actions, f \in UpOrDown : CreateLog(a, f)
    \/ \E q \in {SqlConsumerQueue, NoSqlConsumerQueue}, f \in UpOrDown : PostMessage(q, f)
    \/ ConsumeSQL(NoCF)
    \/ ConsumeNoSQL(NoCF)

SpecRelay == Init /\ [][NextRelay]_vars

\* Both drains of the polling worker: one _worker_loop iteration after the
\* other (users queue, then logs queue) next to manual drains of either
\* queue, both stores going up and down, the broker answering.
NextDrain ==
    \/ PgDown
    \/ PgUp
    \/ MongoDown
    \/ MongoUp
    \/ \E q \in {UsersQueue, LogsQueue} : PostMessage(q, NoFault)
    \/ WorkerCycle
    \/ \E qt \in {"users", "logs"} : ManualDrain(qt)
    \/ \E t \in Threads : HealthCheck(t)
    \/ \E t \in Threads : Receive(t, NoFault)
    \/ \E t \in Threads : ReplayUserQuery(t)
    \/ \E t \in Threads : ReplayUserCommit(t)
    \/ \E t \in Threads : ReplayLog(t)
    \/ \E t \in Threads : Requeue(t, NoFault)

SpecDrain == Init /\ [][NextDrain]_vars

\* Life cycle of the polling worker: calls of start() and stop() from request
\* threads, the loop threads they spawn and join, manual drains in between;
\* nothing is enqueued.
NextWorkerLifecycle ==
    \/ PgDown
    \/ PgUp
    \/ StartTest
    \/ StartSet
    \/ StartSpawn
    \/ StopClear
    \/ StopJoin
    \/ StopJoined
    \/ StopDone
    \/ \E w \in Loops : WorkerLoopTest(w)
    \/ \E w \in Loops, f \in UpOrDown : WorkerLoopBody(w, f)
    \/ ManualDrain("users")
    \/ HealthCheck("manual")
    \/ \E f \in UpOrDown : Receive("manual", f)

SpecWorkerLifecycle == Init /\ [][NextWorkerLifecycle]_vars

\* every thread that runs keeps running: a call of start() or stop() under
\* way takes its next step, a loop thread takes its next step; whether
\* start() or stop() is called at all is up to the clients
FairWorkerLifecycle ==
    /\ SpecWorkerLifecycle
    /\ WF_vars(StartSet)
    /\ WF_vars(StartSpawn)
    /\ WF_vars(StopJoin)
    /\ WF_vars(StopJoined)
    /\ \A w \in Loops : WF_vars(WorkerLoopTest(w))
    /\ \A w \in Loops : WF_vars(\E f \in UpOrDown : WorkerLoopBody(w, f))

\* The SQL consumer process from main() to its exit: probes of PostgreSQL,
\* connect_rabbitmq, the main loop with its deliveries, lost connections and
\* stop signals; clients post bodies to its queue.
NextSqlLifecycle ==
    \/ PgDown
    \/ PgUp
    \/ PostMessage(SqlConsumerQueue, NoFault)
    \/ StartConsuming("sql")
    \/ ProbeStore("sql")
    \/ \E o \in ConnectOutcomes : ConnectAttempt("sql", o)
    \/ Subscribe("sql")
    \/ BrokerDeliver("sql")
    \/ ConnectionLost("sql")
    \/ CallbackBegin("sql")
    \/ \E cf \in StoreFaults : CallbackWrite("sql", cf)
    \/ \E closed \in ChannelClosedOutcomes : CallbackAck("sql", closed)
    \/ \E how \in AckFailures : CallbackAckFails("sql", how)
    \/ TickConnectionLost("sql")
    \/ Signal("sql")

SpecSqlLifecycle == Init /\ [][NextSqlLifecycle]_vars

\* The same for the NoSQL consumer process and MongoDB.
NextNoSqlLifecycle ==
    \/ MongoDown
    \/ MongoUp
    \/ PostMessage(NoSqlConsumerQueue, NoFault)
    \/ StartConsuming("nosql")
    \/ ProbeStore("nosql")
    \/ \E o \in ConnectOutcomes : ConnectAttempt("nosql", o)
    \/ Subscribe("nosql")
    \/ BrokerDeliver("nosql")
    \/ ConnectionLost("nosql")
    \/ CallbackBegin("nosql")
    \/ \E cf \in StoreFaults : CallbackWrite("nosql", cf)
    \/ \E closed \in ChannelClosedOutcomes : CallbackAck("nosql", closed)
    \/ \E how \in AckFailures : CallbackAckFails("nosql", how)
    \/ TickConnectionLost("nosql")
    \/ Signal("nosql")

SpecNoSqlLifecycle == Init /\ [][NextNoSqlLifecycle]_vars

\* The SQL consumer process under a supervisor that starts it again whenever
\* it has exited.
NextSqlRestart ==
    \/ NextSqlLifecycle
    \/ Restart("sql")

SpecSqlRestart == Init /\ [][NextSqlRestart]_vars

\* The shared client under its two callers: the request thread and the
\* worker thread call send_message and receive_message on the users queue,
\* statement by statement, the broker answering or failing each statement.
NextSharedClient ==
    \/ \E t \in Callers : ClientEnter(t)
    \/ \E t \in Callers : ClientStep(t)

SpecSharedClient == Init /\ [][NextSharedClient]_vars

\* The client under one caller: the request thread alone calls send_message
\* and receive_message, statement by statement, the broker answering or
\* failing each statement.
NextOneCaller ==
    \/ ClientEnter("request")
    \/ ClientStep("request")

SpecOneCaller == Init /\ [][NextOneCaller]_vars

\* get_session_with_retry on its own: calls with every retries argument up to
\* MaxTests and both delays, the relational store going up and down between
\* the tests.
NextSession ==
    \/ PgDown
    \/ PgUp
    \/ \E n \in 1..MaxTests, d \in Delays : SessionCall(n, d)
    \/ SessionTest

SpecSession == Init /\ [][NextSession]_vars

\* The start of the service: wait_for_services probing the relational store,
\* which goes up and down between the probes.
NextBoot ==
    \/ PgDown
    \/ PgUp
    \/ BootCall
    \/ BootProbe

SpecBoot == Init /\ [][NextBoot]_vars

\* The start of the application and what follows: startup_event step by
\* step with the relational store going up and down, then the requests the
\* application serves (POST /users/, the explicit start of the worker, a
\* manual drain) next to the loop threads that were started.
NextStartup ==
    \/ PgDown
    \/ PgUp
    \/ StartupCall
    \/ BootProbe
    \/ CreateTablesCall
    \/ CreateTablesAttempt
    \/ StartupSwallow
    \/ \E f \in UpOrDown : SetupFallbackQueues(f)
    \/ StartupStart
    \/ StartupDone
    \/ ServedCreateUser
    \/ ServedStart
    \/ ServedManualDrain
    \/ \E w \in Loops : WorkerLoopTest(w)
    \/ \E w \in Loops : LoopIdlePass(w)
    \/ LoopCycle
    \/ LoopDrain

SpecStartup == Init /\ [][NextStartup]_vars

\* a client posts to the users queue while the worker sleeps between two
\* cycles: nothing is enqueued during a drain
PostBetweenCycles ==
    /\ th["worker"].pc = "idle"
    /\ PostMessage(UsersQueue, NoFault)

\* One drain cycle of the worker after the other, nothing enqueued while a
\* cycle runs; both stores go up and down and the broker answers or fails
\* under every call of the client.
NextCycle ==
    \/ PgDown
    \/ PgUp
    \/ PostBetweenCycles
    \/ WorkerCycle
    \/ HealthCheck("worker")
    \/ \E f \in UpOrDown : Receive("worker", f)
    \/ ReplayUserQuery("worker")
    \/ ReplayUserCommit("worker")
    \/ \E f \in UpOrDown : Requeue("worker", f)

SpecCycle == Init /\ [][NextCycle]_vars

\* the worker thread keeps running: whatever statement it is at, it gets to
\* execute it
FairCycle ==
    /\ SpecCycle
    /\ WF_vars(HealthCheck("worker"))
    /\ WF_vars(\E f \in UpOrDown : Receive("worker", f))
    /\ WF_vars(ReplayUserQuery("worker"))
    /\ WF_vars(ReplayUserCommit("worker"))
    /\ WF_vars(\E f \in UpOrDown : Requeue("worker", f))

\* The broker client on its own: calls of send_message, receive_message and
\* declare_queue under every single fault of the broker.
NextClient ==
    \/ \E q \in {UsersQueue, LogsQueue}, f \in Faults : SendMessageCall(q, f)
    \/ \E q \in {UsersQueue, LogsQueue}, f \in Faults : ReceiveMessageCall(q, f)
    \/ \E f \in Faults : DeclareQueueCall(f)

SpecClient == Init /\ [][NextClient]_vars

\* ------------------------------------------------------------- properties
\* where envelope i is
InQueue(q, i) == \E k \in DOMAIN queue[q] : queue[q][k].id = i

Copies(q, i) == Cardinality({k \in DOMAIN queue[q] : queue[q][k].id = i})

ActiveQueues == {UsersQueue, LogsQueue, SqlConsumerQueue, NoSqlConsumerQueue}

DeadLetterQueues == {DeadLetterOf(UsersQueue), DeadLetterOf(LogsQueue)}

Held(i) == \E t \in Threads : th[t].msg.id = i

Enqueued(i) == i < nextId

\* C1: no envelope is silently lost: every envelope that was enqueued is in
\* its active queue (or in the hands of the thread that just pulled it), was
\* replayed into the store, is in a dead-letter queue, or was dropped by a
\* dedicated consumer on one of its documented drop paths.
C1_NoEnvelopeLost ==
    \A i \in Ids :
        Enqueued(i) =>
            \/ \E q \in ActiveQueues : InQueue(q, i)
            \/ Held(i)
            \/ fate[i] = "replayed"
            \/ \E q \in DeadLetterQueues : InQueue(q, i)
            \/ fate[i] \in {"dropped_retries", "dropped_poison"}

\* C2: retries are bounded on both paths: no envelope fails replay more often
\* than the larger of the two budgets allows (the polling worker replays an
\* envelope at most WorkerMaxRetries + 1 times, a dedicated consumer at most
\* ConsumerRetryLimit + 1 times).
C2_BoundedRetries ==
    \A i \in Ids : attempts[i] <= WorkerMaxRetries + 1

\* the retry counts under which envelope i is seen by the path that holds it:
\* the header for a dedicated consumer, the body field for the worker
SeenCounts(i) ==
    UNION {{HeaderRetryCount(queue[q][k]) : k \in {j \in DOMAIN queue[q] : queue[q][j].id = i}} :
             q \in {SqlConsumerQueue, NoSqlConsumerQueue}}
    \cup UNION {{GetRetryCount(queue[q][k]) : k \in {j \in DOMAIN queue[q] : queue[q][j].id = i}} :
                  q \in {UsersQueue, LogsQueue}}
    \cup {GetRetryCount(th[t].msg) : t \in {u \in Threads : th[u].msg.id = i}}

\* a step in which a replay of envelope i, seen with retry_count r below the
\* budget of its path, failed and the envelope went back: the nack of a
\* dedicated consumer, the _requeue_with_retry of the worker
FailedBelowBudget(i, r) ==
    \/ /\ attempts'[i] = attempts[i] + 1
       /\ \E q \in {SqlConsumerQueue, NoSqlConsumerQueue} : InQueue(q, i)
       /\ r \in SeenCounts(i)
       /\ r < ConsumerRetryLimit
    \/ \E t \in Threads :
          /\ th[t].pc = "requeue" /\ th'[t].pc # "requeue"
          /\ th[t].msg.id = i
          /\ r = GetRetryCount(th[t].msg)
          /\ r < WorkerMaxRetries

\* C3: on both paths a transient replay failure of an envelope with
\* retry_count r below the budget makes its next delivery carry r + 1, and
\* the retry_count seen for one envelope never decreases.
C3_RetryCountGrows ==
    [][ \A i \in Ids :
          /\ \A r \in SeenCounts(i) : \A n \in SeenCounts(i)' : n >= r
          /\ \A r \in 0..WorkerMaxRetries :
                FailedBelowBudget(i, r) => \A n \in SeenCounts(i)' : n = r + 1 ]_vars

\* the retry_count a message carries: the header when it has one, else the
\* field of its body
CarriedRetryCount(m) == IF m.hdr # NoCount THEN m.hdr ELSE GetRetryCount(m)

\* C4: in a dedicated consumer every transient replay failure (no session, or
\* the write raised) is decided by the retry_count of the envelope: below 3
\* nack with requeue, from 3 on nack without requeue.
C4_RetryCountDecides ==
    \A c \in Consumers :
        (cons[c].cause \in {"session", "write"} /\ cons[c].decision # "none") =>
            cons[c].decision = RetryDecision(CarriedRetryCount(cons[c].msg))

\* C5: on the polling path a failed replay increments retry_count; up to 5
\* the envelope is back at the end of the same queue with the new retry_count
\* and last_retry; above 5 it is in <queue>_dead_letter exactly once and not
\* in the active queue, and an envelope in a dead-letter queue is never
\* pulled again.
C5_RequeueOrDeadLetter ==
    [][ /\ \A t \in Threads :
              (th[t].pc = "requeue" /\ th'[t].pc # "requeue") =>
                  LET m == th[t].msg
                      q == QueueOf(th[t].q)
                      new == GetRetryCount(m) + 1
                  IN IF new <= WorkerMaxRetries
                     THEN /\ queue'[q] = Append(queue[q], [m EXCEPT !.retry_count = new,
                                                                     !.last_retry = TRUE])
                          /\ queue'[DeadLetterOf(q)] = queue[DeadLetterOf(q)]
                     ELSE /\ queue'[DeadLetterOf(q)] = Append(queue[DeadLetterOf(q)], m)
                          /\ Cardinality({k \in DOMAIN queue'[DeadLetterOf(q)] :
                                            queue'[DeadLetterOf(q)][k].id = m.id}) = 1
                          /\ queue'[q] = queue[q]
                          /\ \A k \in DOMAIN queue'[q] : queue'[q][k].id # m.id
        /\ \A i \in Ids :
              (\E q \in DeadLetterQueues : InQueue(q, i)) =>
                  /\ \A t \in Threads : th'[t].msg.id = i => th[t].msg.id = i
                  /\ \A q \in DeadLetterQueues : queue'[q] # << >> /\ queue[q] # << >>
                                                   => Head(queue'[q]) = Head(queue[q]) ]_vars

\* a message that lacks a field its replay needs
Poison(qt, d) ==
    IF qt = "users" THEN ~Has(d, "name") \/ ~Has(d, "email") ELSE ~Has(d, "action")

\* C6: a poison message (a required field missing) is dropped on its first
\* delivery on whichever path pulls it: it is never counted as a failed
\* replay, never re-queued with a retry_count, and never in a dead-letter
\* queue.
C6_PoisonDropped ==
    /\ \A qt \in {"users", "logs"} :
          /\ \A k \in DOMAIN queue[QueueOf(qt)] :
                LET m == queue[QueueOf(qt)][k] IN
                (GetOperationType(m) = HandledOp(qt) /\ Poison(qt, GetData(m))) =>
                    ~m.last_retry /\ attempts[m.id] = 0
          /\ \A k \in DOMAIN queue[DeadLetterOf(QueueOf(qt))] :
                LET m == queue[DeadLetterOf(QueueOf(qt))][k] IN
                ~(GetOperationType(m) = HandledOp(qt) /\ Poison(qt, GetData(m)))
    /\ \A k \in DOMAIN queue[SqlConsumerQueue] :
          Poison("users", queue[SqlConsumerQueue][k].top)
              => attempts[queue[SqlConsumerQueue][k].id] = 0
    /\ \A k \in DOMAIN queue[NoSqlConsumerQueue] :
          Poison("logs", queue[NoSqlConsumerQueue][k].top)
              => attempts[queue[NoSqlConsumerQueue][k].id] = 0

\* C7: replaying a user envelope whose email already has a row leaves one
\* row for that email and reports success, under every interleaving of the
\* replaying threads: the attempt neither re-queues nor dead-letters.
C7_DuplicateReplaySucceeds ==
    [][ /\ \A e \in Emails : Cardinality({r \in users' : r.email = e}) <= 1
        /\ \A t \in Threads :
              ( /\ th[t].pc \in {"replay", "commit"}
                /\ th[t].q = "users"
                /\ th'[t] # th[t]
                /\ pgUp
                /\ ~Poison("users", GetData(th[t].msg))
                /\ Existing(GetData(th[t].msg).email) )
              => /\ th'[t].pc = "receive"
                 /\ fate'[th[t].msg.id] = "replayed"
                 /\ users' = users
                 /\ queue' = queue ]_vars

\* C8: replay of a log envelope is idempotent: however often the broker
\* hands the same envelope to a replay, the collection holds one document
\* for it.
C8_LogReplayIdempotent ==
    \A i \in Ids : logs[i] <= 1

\* C9: a create_user or create_log request during which the primary store
\* was reachable enqueues no envelope.
C9_NoEnqueueWhenReachable ==
    /\ (req.pc = "idle" /\ req.reachable) => ~req.fallback_used
    /\ logResp.reachable => ~logResp.fallback_used

\* C10: send_message never raises and returns a boolean, and when it returns
\* True the message is the new last element of the named queue.
C10_SendMessageTotal ==
    [][ sent' # sent =>
          /\ sent'.ret \in BOOLEAN
          /\ ~sent'.raised
          /\ sent'.ret =>
               /\ Len(queue'[sent'.q]) = Len(queue[sent'.q]) + 1
               /\ SubSeq(queue'[sent'.q], 1, Len(queue[sent'.q])) = queue[sent'.q]
               /\ queue'[sent'.q][Len(queue'[sent'.q])].id = sent'.id
               /\ \A q \in QueueNames \ {sent'.q} : queue'[q] = queue[q] ]_vars

\* a call that found the channel closed by an earlier fault returned False
C10_Witness ==
    /\ sent.id # 0
    /\ ~sent.ret
    /\ rabbitmq.channel = "closed"
    /\ rabbitmq.connection = "open"

\* the step appended one envelope of operation op to queue q and nothing else
\* changed in the broker
EnqueuedOne(q, op) ==
    /\ Len(queue'[q]) = Len(queue[q]) + 1
    /\ SubSeq(queue'[q], 1, Len(queue[q])) = queue[q]
    /\ queue'[q][Len(queue'[q])].operation_type = op
    /\ queue'[q][Len(queue'[q])].retry_count = 0
    /\ \A o \in QueueNames \ {q} : queue'[o] = queue[o]

\* C11: when the primary write failed, the request is answered 503 if the
\* broker did not take the envelope, and answered as accepted with
\* fallback_used = true only if the envelope is in the fallback queue; no
\* other outcome of the relay reaches the request.
C11_FallbackUnavailableEscalates ==
    [][ /\ (req'.pc = "idle" /\ (req' # req \/ queue'[UsersQueue] # queue[UsersQueue])) =>
              /\ req'.status \in {200, 409, 503}
              /\ req'.fallback_used <=> EnqueuedOne(UsersQueue, "create_user")
              /\ req'.fallback_used => req'.status = 200
              /\ req'.status = 503 <=>
                    (users' = users /\ queue' = queue /\ ~(req.pc = "idle" /\ pgUp /\ Existing(req'.email)))
        /\ (logResp' # logResp \/ logs' # logs \/ queue'[LogsQueue] # queue[LogsQueue]) =>
              /\ logResp'.status \in {200, 503}
              /\ logResp'.fallback_used <=> EnqueuedOne(LogsQueue, "create_log")
              /\ logResp'.fallback_used => logResp'.status = 200
              /\ logResp'.status = 503 <=> (logs' = logs /\ queue' = queue) ]_vars

\* both requests were answered 503: the store was down and the broker refused
C11_Witness ==
    /\ req.status = 503 /\ ~req.fallback_used
    /\ logResp.status = 503 /\ ~logResp.fallback_used
    /\ queue[UsersQueue] = << >> /\ queue[LogsQueue] = << >>

\* the worker's drain of the users queue returns in this step, with the store
\* healthy and the broker having answered the last receive
UsersDrainEndsHealthy ==
    /\ th["worker"].q = "users" /\ th["worker"].pc = "receive"
    /\ th'["worker"].q = "logs"
    /\ pgUp /\ pgUp'
    /\ rabbitmq'.channel = "open"

\* C12: an envelope enqueued while the relational store is down stays in the
\* users queue as long as the store is down; a drain cycle of the users queue
\* that runs with the store healthy ends with the queue empty and exactly one
\* row for the email of the envelope.
C12_RecoveryWithinOneCycle ==
    [][ /\ (~pgUp /\ ~pgUp') =>
              \A i \in Ids :
                  InQueue(UsersQueue, i) =>
                      \E k \in DOMAIN queue'[UsersQueue] : queue'[UsersQueue][k].id = i
        /\ UsersDrainEndsHealthy =>
              /\ queue'[UsersQueue] = << >>
              /\ nextId > 1 =>
                    \A e \in Emails : Cardinality({r \in users' : r.email = e}) = 1 ]_vars

\* the domain a dedicated consumer replays
DomainOf(c) == IF c = "sql" THEN "users" ELSE "logs"

\* m has the layout send_to_fallback_queue writes for the domain qt
ProducerEnvelope(m, qt) ==
    /\ m.operation_type = HandledOp(qt)
    /\ m.retry_count = 0
    /\ m.top = EmptyDict
    /\ ~Poison(qt, m.data)

\* C13: an envelope the producer enqueued can be replayed by the dedicated
\* consumer of its domain: the envelope is in the queue that consumer
\* subscribes to, and a consumer handed an envelope of the producer's layout
\* with its store answering acks it as replayed.
C13_ConsumerReplaysProducerEnvelope ==
    \A c \in Consumers :
        /\ \A q \in ActiveQueues : \A k \in DOMAIN queue[q] :
              ProducerEnvelope(queue[q][k], DomainOf(c)) => q = ConsumerQueue(c)
        /\ ( /\ ProducerEnvelope(cons[c].msg, DomainOf(c))
              /\ cons[c].decision # "none"
              /\ cons[c].cause \notin {"session", "write"} )
            => /\ cons[c].decision = "ack"
               /\ fate[cons[c].msg.id] = "replayed"

C15_StopTerminates ==
    /\ \A w \in Loops :
          (fw.stop.pc \in {"join", "joining"} /\ w \in fw.stop.seen) ~> (fw.loop[w] = "exited")
    /\ (fw.stop.pc = "join") ~> (fw.stop.pc = "returned")
    /\ [][ (fw.stop.pc # "returned" /\ fw'.stop.pc = "returned") =>
              \A w \in fw.stop.seen : fw'.loop[w] = "exited" ]_vars

\* C16: a consumer probes its store at most 30 times and tries the broker
\* only after a probe succeeded; after 30 failed probes the process has
\* exited with status 1 without ever trying the broker, and a failure exit
\* during the probing comes only then; nothing is delivered, processed or
\* subscribed before a probe and a connection succeeded.
C16_StartupOrder ==
    \A c \in Consumers :
        /\ proc[c].probes <= StoreProbeLimit
        /\ proc[c].attempted => proc[c].probed_ok
        /\ proc[c].probes = StoreProbeLimit =>
              /\ proc[c].pc = "exited" /\ proc[c].exit = 1
              /\ ~proc[c].attempted /\ ~proc[c].probed_ok
              /\ proc[c].connection = "none"
        /\ (proc[c].pc = "exited" /\ proc[c].exit = 1 /\ ~proc[c].probed_ok) =>
              proc[c].probes = StoreProbeLimit
        /\ (proc[c].pc = "probe") => (~proc[c].probed_ok /\ proc[c].connection = "none")
        /\ ( \/ proc[c].unacked # << >>
             \/ proc[c].consuming
             \/ proc[c].pc \in {"loop", "callback"}
             \/ cons[c].delivery # 0 )
           => proc[c].probed_ok /\ proc[c].attempted
        /\ proc[c].consuming => (proc[c].connection = "open" /\ proc[c].durable)

\* the store never answered: 30 probes, then exit status 1
C16_Witness ==
    /\ proc["sql"].pc = "exited"
    /\ proc["sql"].probes = StoreProbeLimit
    /\ proc["sql"].exit = 1
    /\ ~proc["sql"].attempted

\* consumer c makes one pass of the loop of connect_rabbitmq in this step
ConnectStep(c) ==
    /\ proc[c].pc \in {"connect", "reconnect"}
    /\ proc'[c] # proc[c]
    /\ proc'[c].running

\* C17: connect_rabbitmq makes at most 10 attempts and has slept once after
\* every failed attempt but the last; the attempt that connects ends the call
\* with the queue declared durable and prefetch 1; the call fails exactly
\* when the 10th attempt failed.
C17_ConnectTerminates ==
    [][ \A c \in Consumers :
          ConnectStep(c) =>
              /\ proc[c].attempt < ConnectMaxRetries
              /\ proc[c].sleeps = proc[c].attempt
              /\ proc'[c].attempted
              /\ \/ /\ proc'[c].pc = (IF proc[c].pc = "connect" THEN "subscribe"
                                                                 ELSE "resubscribe")
                    /\ proc'[c].connection = "open"
                    /\ proc'[c].durable
                    /\ proc'[c].prefetch = 1
                 \/ /\ proc'[c].pc = proc[c].pc
                    /\ proc'[c].attempt = proc[c].attempt + 1
                    /\ proc'[c].attempt < ConnectMaxRetries
                    /\ proc'[c].sleeps = proc[c].sleeps + 1
                 \/ /\ proc'[c].pc = "exited"
                    /\ proc'[c].attempt = ConnectMaxRetries
                    /\ proc'[c].sleeps = ConnectMaxRetries - 1
                    /\ proc'[c].connection \in {"none", "closed"} ]_vars

\* all 10 attempts of a connect_rabbitmq call failed, after 9 sleeps
C17_Witness ==
    /\ proc["sql"].pc = "exited"
    /\ proc["sql"].running
    /\ proc["sql"].attempt = ConnectMaxRetries
    /\ proc["sql"].sleeps = ConnectMaxRetries - 1

\* C18: the reconnect starts only on a lost connection; after a reconnect
\* that succeeded the consumer subscribes again and is back in its loop,
\* consuming; after a reconnect that failed the process ends with a failure
\* exit status.
C18_ReconnectOrFail ==
    [][ \A c \in Consumers :
          /\ (proc[c].pc # "reconnect" /\ proc'[c].pc = "reconnect") =>
                 /\ proc[c].pc \in {"loop", "callback"}
                 /\ proc[c].connection = "lost"
          /\ (proc[c].pc = "resubscribe" /\ proc'[c] # proc[c] /\ proc'[c].running) =>
                 /\ proc'[c].pc = "loop"
                 /\ proc'[c].consuming
                 /\ proc'[c].connection = "open"
          /\ (proc[c].pc = "reconnect" /\ proc'[c].pc = "exited" /\ proc'[c].running) =>
                 proc'[c].exit = 1 ]_vars

\* C19: a stop signal does not end a consumer while a callback is under way:
\* the delivery it began to process is acknowledged or rejected first.
C19_CooperativeShutdown ==
    [][ \A c \in Consumers :
          (proc[c].running /\ ~proc'[c].running) => proc[c].pc # "callback" ]_vars

\* C20: the broker holds at most one unacknowledged delivery for a consumer's
\* channel, before and after a reconnect, and the callback under way works
\* on that delivery and no other.
C20_OneUnacked ==
    \A c \in Consumers :
        /\ Len(proc[c].unacked) <= 1
        /\ (proc[c].pc = "callback" /\ proc[c].unacked # << >>) =>
               proc[c].unacked = <<proc[c].body>>
        /\ proc[c].pc \notin {"callback", "exited"} => proc[c].body = NoMsg

\* after a reconnect and a second basic_consume, one delivery is being
\* processed while the next envelope waits in the queue
C20_Witness ==
    /\ proc["sql"].resubscribed
    /\ proc["sql"].pc = "callback"
    /\ Len(proc["sql"].unacked) = 1
    /\ proc["sql"].connection = "open"
    /\ queue[SqlConsumerQueue] # << >>

\* the callback of consumer c decides on its delivery in this step
CallbackDecides(c) ==
    /\ proc[c].pc = "callback" /\ proc[c].stage = "begun"
    /\ proc'[c].stage = "decided"

\* C21: the decision a dedicated consumer takes after a transient replay
\* failure is the retry policy applied to the retry_count the envelope
\* carries, whatever the consumer process went through before (restarts
\* included): below 3 nack with requeue, from 3 on nack without requeue.
C21_DecisionFromEnvelope ==
    [][ \A c \in Consumers :
          (CallbackDecides(c) /\ proc'[c].cause \in {"session", "write"}) =>
              proc'[c].decision = RetryDecision(GetRetryCount(proc[c].body)) ]_vars

\* C22: nothing keeps a thread out of the shared client while another thread
\* is inside it, and nothing makes a thread inside it wait: whatever one
\* caller is doing, the other can enter send_message / receive_message and
\* can take its next statement.
C22_NoMutualExclusion ==
    \A t \in Callers :
        /\ cl[t].pc = "idle" => ENABLED ClientEnter(t)
        /\ cl[t].pc # "idle" => ENABLED ClientStep(t)

\* the request thread has passed its channel check and stands before
\* basic_publish while the worker thread, in connect(), has just cleared
\* connection and channel
C22_Witness ==
    /\ cl["request"].op = "send" /\ cl["request"].pc = "act"
    /\ cl["worker"].pc \in {"check", "declare"}
    /\ rabbitmq.channel = "none"

\* C24: a call of process_message makes exactly one basic_ack / basic_nack
\* for the delivery it was given, whatever fails on the way (validation,
\* duplicate, write, session, rollback, close of the session).
C24_OneDecisionPerDelivery ==
    [][ \A c \in Consumers :
          CallbackDecides(c) => Len(proc'[c].decisions) = 1 ]_vars

\* thread t finishes its work on the message it pulled in this step
WorkerMessageStep(t) ==
    /\ th[t].pc \in {"replay", "commit", "requeue"}
    /\ th'[t] # th[t]

\* the callback of consumer c returns in this step, the connection standing
\* and no stop signal in the way
CallbackReturns(c) ==
    /\ proc[c].pc = "callback" /\ proc'[c].pc # "callback"
    /\ proc[c].connection = "open"
    /\ proc'[c].running

\* C23: whatever goes wrong with one message, the drain of the worker goes
\* on with its loop (the next receive, or the commit / requeue of the same
\* message), and a dedicated consumer whose callback returns is back in its
\* main loop, still subscribed to its queue.
C23_FaultsStayLocal ==
    [][ /\ \A t \in Threads :
              WorkerMessageStep(t) =>
                  /\ th'[t].pc \in {"receive", "commit", "requeue"}
                  /\ th'[t].q = th[t].q
        /\ \A c \in Consumers :
              CallbackReturns(c) =>
                  /\ proc'[c].pc = "loop"
                  /\ proc'[c].consuming
                  /\ proc'[c].connection = "open" ]_vars

\* the drain thread t is in ends in this step
DrainEnds(t) ==
    /\ th[t].pc = "receive"
    /\ th'[t].pc \in {"health", "idle"}

\* a drain cycle of the worker that has begun comes to its end
CycleTerminates ==
    (th["worker"].pc # "idle") ~> (th["worker"].pc = "idle")

\* C25: a drain cycle during which nothing is enqueued comes to its end, and
\* the drain of a queue ends only on a queue that is empty.
C25_DrainReachesEmptyQueue ==
    /\ CycleTerminates
    /\ [][ \A t \in Threads :
             DrainEnds(t) => queue[QueueOf(th[t].q)] = << >> ]_vars

\* m and h are the same envelope up to retry_count and last_retry
SameButRetry(m, h) ==
    /\ m.id = h.id
    /\ m.operation_type = h.operation_type
    /\ m.data = h.data
    /\ m.top = h.top
    /\ m.hdr = h.hdr
    /\ m.retry_count \in {h.retry_count, GetRetryCount(h) + 1}

\* the envelope a step appends to queue q is a new one of the producer, with
\* retry_count 0, or the one a drain holds, changed in nothing but
\* retry_count and last_retry
AppendedByHolder(q) ==
    LET m == queue'[q][Len(queue'[q])] IN
    \/ /\ m.id = nextId
       /\ nextId' = nextId + 1
       /\ m.retry_count = 0
       /\ m.last_retry = FALSE
    \/ \E t \in Threads :
          /\ th[t].pc = "requeue"
          /\ th'[t].msg = NoMsg
          /\ SameButRetry(m, th[t].msg)

\* C26: an envelope waiting in a queue is changed by nobody; the envelope a
\* step publishes is either a new one of the producer, created with
\* retry_count 0, or the envelope the publishing drain holds, with the same
\* operation_type and data and only retry_count and last_retry changed.
C26_OnlyRetryFieldsChange ==
    [][ \A q \in QueueNames :
          \/ queue'[q] = queue[q]
          \/ queue[q] # << >> /\ queue'[q] = Tail(queue[q])
          \/ /\ Len(queue'[q]) = Len(queue[q]) + 1
             /\ SubSeq(queue'[q], 1, Len(queue[q])) = queue[q]
             /\ AppendedByHolder(q) ]_vars

\* an envelope of the producer is back in the users queue after two failed
\* replays
C26_Witness ==
    \E i \in 1..Len(queue[UsersQueue]) :
        /\ queue[UsersQueue][i].retry_count = 2
        /\ queue[UsersQueue][i].last_retry
        /\ queue[UsersQueue][i].operation_type = "create_user"
        /\ queue[UsersQueue][i].data = UserDict("Ana", "a@x.com")

\* C27: after ensure_connection has returned the channel is non-null only if
\* a connection is held, and basic_publish / basic_get is never called on the
\* channel of a connection that is closed.
C27_NoUseOfClosedConnection ==
    \A t \in Callers :
        /\ (cl[t].pc \in {"check", "declare"} /\ rabbitmq.channel # "none")
              => rabbitmq.connection # "none"
        /\ (cl[t].pc = "act" /\ rabbitmq.channel # "none")
              => rabbitmq.connection = "open"

\* C28: get_session_with_retry(n, d) makes at most n connection tests; it
\* returns on the first test that succeeds; after the k-th failed test, k < n,
\* it sleeps min(d * 2^(k-1), 30) seconds, a non-decreasing sequence capped at
\* 30; it does not sleep after the n-th failure and raises exactly when all n
\* tests failed.
C28_BoundedBackoff ==
    /\ sess.tests <= sess.retries
    /\ \A k \in 1..Len(sess.sleeps) :
          /\ k < sess.retries
          /\ sess.sleeps[k] = Min(sess.delay * (2 ^ (k - 1)), 30)
          /\ sess.sleeps[k] <= 30
          /\ k > 1 => sess.sleeps[k - 1] <= sess.sleeps[k]
    /\ sess.pc = "test" => /\ sess.tests = Len(sess.sleeps)
                           /\ sess.tests < sess.retries
    /\ sess.pc = "returned" => sess.tests = Len(sess.sleeps) + 1
    /\ sess.pc = "raised" => /\ sess.tests = sess.retries
                             /\ Len(sess.sleeps) = sess.retries - 1

\* a call with delay 2 has raised after six failed tests, the fifth sleep cut
\* to 30 seconds
C28_Witness ==
    /\ sess.pc = "raised"
    /\ sess.tests = 6
    /\ sess.sleeps = <<2, 4, 8, 16, 30>>

\* probes of wait_for_services that found the store unavailable
FailedProbes == IF boot.postgres_ready THEN boot.probes - 1 ELSE boot.probes

\* C29: wait_for_services makes at most 30 probes, has waited 10 seconds
\* after every failed probe (one sleep per failed probe), returns as soon as
\* a probe succeeds and raises the timeout only after 30 failed probes.
C29_WaitAfterFailedProbe ==
    /\ boot.probes <= 30
    /\ boot.sleeps = FailedProbes
    /\ boot.pc = "returned" => boot.postgres_ready
    /\ boot.pc = "raised" => /\ ~boot.postgres_ready
                             /\ boot.probes = 30

\* the loop threads inside _worker_loop
AliveLoops == {w \in Loops : fw.loop[w] \in {"test", "body"}}

\* C30: at most one loop thread of the polling worker is alive at any time,
\* whatever the interleaving of the calls of start() and stop().
C30_OneLoopAlive == Cardinality(AliveLoops) <= 1

\* the queues the polling worker publishes to: the two fallback queues and
\* their dead-letter queues
WorkerQueues == {UsersQueue, LogsQueue, DeadLetterOf(UsersQueue), DeadLetterOf(LogsQueue)}

\* C31: every envelope of the producer that only the polling worker has
\* handled carries a retry_count between 0 and 5, in a fallback queue, in the
\* hands of a drain and in a dead-letter queue, and a dead-lettered envelope
\* carries the retry_count 5 of its last stay in the fallback queue.
C31_RetryCountInRange ==
    /\ \A q \in WorkerQueues : \A i \in 1..Len(queue[q]) :
          /\ queue[q][i].retry_count \in 0..5
          /\ q \in {DeadLetterOf(UsersQueue), DeadLetterOf(LogsQueue)}
                => queue[q][i].retry_count = 5
    /\ \A t \in Threads : th[t].msg # NoMsg => th[t].msg.retry_count \in 0..5

\* an envelope of the producer lies in the dead-letter queue of the users
\* queue after its sixth failed replay
C31_Witness ==
    \E i \in 1..Len(queue[DeadLetterOf(UsersQueue)]) :
        /\ queue[DeadLetterOf(UsersQueue)][i].operation_type = "create_user"
        /\ queue[DeadLetterOf(UsersQueue)][i].last_retry
        /\ attempts[queue[DeadLetterOf(UsersQueue)][i].id] >= 6

\* wait_for_services and create_tables have both succeeded in this start
StartupSucceeded == boot.postgres_ready /\ boot.tables_created

\* C32: startup_event reaches fallback_worker.start() only after
\* wait_for_services and create_tables have both succeeded; when either
\* raises, the error is swallowed, the application serves and can enqueue, no
\* loop thread exists and the running flag is clear, and the flag is set
\* afterwards only by an explicit start; a pass of the worker over the queues
\* begins only on a loop thread that was started.
C32_WorkerStartedAfterStartup ==
    [][ /\ (boot.pc # "start" /\ boot'.pc = "start") => StartupSucceeded'
        /\ (boot.pc # "failed" /\ boot'.pc = "failed")
              => /\ ~StartupSucceeded'
                 /\ ~fw'.running
                 /\ \A w \in Loops : fw'.loop[w] = "unborn"
                 /\ th'["worker"].pc = "idle"
        /\ (~fw.running /\ fw'.running)
              => \/ boot.pc = "start" /\ StartupSucceeded
                 \/ Serving
        /\ \A w \in Loops : (fw.loop[w] = "unborn" /\ fw'.loop[w] # "unborn") => fw.running
        /\ (th["worker"].pc = "idle" /\ th'["worker"].pc # "idle")
              => \E w \in Loops : fw.loop[w] = "body"
        /\ (boot.pc = "failed" /\ req.pc = "idle" /\ nextId <= MaxEnv)
              => ENABLED ServedCreateUser ]_vars

\* the start has failed, the worker was never started, and a manual drain
\* holds an envelope that was enqueued since
C32_Witness ==
    /\ boot.pc = "failed"
    /\ ~fw.running
    /\ fw.worker_thread = 0
    /\ th["worker"].pc = "idle"
    /\ th["manual"].msg # NoMsg
    /\ th["manual"].msg.operation_type = "create_user"

TypeOK ==
    /\ pgUp \in BOOLEAN
    /\ nextId \in 1..(MaxEnv + 1)
    /\ \A t \in Threads : th[t].pc \in {"idle", "health", "receive", "replay", "commit", "requeue"}

====
